---------------------------- MODULE Spec2Model ----------------------------
(***************************************************************************)
(* DRG proof of replication: setup, replicate, extract, prove, verify      *)
(* (storage-proofs/src/drgporep.rs) over the additive field encoding       *)
(* (storage-proofs-porep/src/encode.rs).                                   *)
(*                                                                         *)
(* A Domain value is a natural number; data nodes are field elements in    *)
(* 0 .. Modulus-1.  Node arrays are functions over 0 .. n-1 (the code's    *)
(* 0-based indices), lists (challenges, paths, parent lists) are           *)
(* sequences.  A HybridDomain is a record [tag, val].                      *)
(***************************************************************************)
EXTENDS Integers, Sequences, FiniteSets, TLC

VARIABLES
    pc,          \* position in the protocol run
    pp,          \* PublicParams returned by setup
    replica_id,  \* the prover's replica id (a HybridDomain value's field element)
    original,    \* the caller's copy of the data before replication (the tests' `data`)
    data,        \* the buffer replicate encodes in place (`mmapped_data_copy`)
    tau,         \* porep::Tau returned by replicate
    aux,         \* porep::ProverAux returned by replicate
    pub_inputs,  \* PublicInputs handed to prove
    prove_out,   \* what prove returned: a Proof, or the assertion that aborted it
    proof,       \* the Proof handed to verify
    ver_inputs,  \* PublicInputs handed to verify
    verify_out,  \* what verify returned, and where it stopped
    extracted,   \* what extract_all / extract returned
    enc,         \* arguments and results of encode / decode calls
    call,        \* a call of a Domain, hasher, serialize or setup operation and its outcome
    reg          \* the lazily built Poseidon constant registries and the threads using them

vars == <<pc, pp, replica_id, original, data, tau, aux, pub_inputs, prove_out,
          proof, ver_inputs, verify_out, extracted, enc, call, reg>>

----------------------------------------------------------------------------
(* Sizes *)

Modulus == 7        \* the field's modulus (additive group Z_Modulus)
Nodes == 4          \* N_NODES of the extract tests
Degree == 2         \* base degree of the graph
MaxSeed == 1        \* graph seeds 0 .. MaxSeed
MaxData == 2        \* data node values 0 .. MaxData in the extraction runs
TestByte == 2       \* the byte the extract tests fill their data with
BETA_HEIGHT == 1    \* the tests' beta height
ChallengesCountOne == 1   \* challenges_count of the extract tests
ChallengesCountTwo == 2   \* challenges_count of prove_verify_aux

None == [none |-> TRUE]

Field == 0 .. (Modulus - 1)
NodeIds == 0 .. (Nodes - 1)

RECURSIVE Log2Ceil(_)
Log2Ceil(n) == IF n <= 1 THEN 0 ELSE 1 + Log2Ceil((n + 1) \div 2)

RECURSIVE Pow2(_)
Pow2(n) == IF n = 0 THEN 1 ELSE 2 * Pow2(n - 1)

TreeHeight == Log2Ceil(Nodes)

----------------------------------------------------------------------------
(* encode.rs *)

\* Domain::into_field / Domain::from_field: a Domain of this model always holds
\* a canonical field element, so both conversions keep the number.
into_field(d) == d
from_field(f) == f

encode_fr_nowrap(key, value) == key + value
encode_fr_sub(key, value) == (key - value + Modulus) % Modulus
\* encode_fr: *key += value, in the field
encode_fr(key, value) == (key + value) % Modulus

encode(key, value) ==
    LET v == into_field(value)
        result == into_field(key)
    IN  from_field(encode_fr(result, v))

decode_nowrap(key, value) == from_field(into_field(value) - into_field(key))
\* decode: result -= key, in the field
decode(key, value) ==
    LET result == into_field(value)
        k == into_field(key)
    IN  from_field((result - k + Modulus) % Modulus)

----------------------------------------------------------------------------
(* HybridDomain *)

Alpha == "Alpha"
Beta == "Beta"

HybridDomain(tag, val) == [tag |-> tag, val |-> val]

\* convert_into_alpha / convert_into_beta: the same bytes under the other tag
convert_into_alpha(d) == HybridDomain(Alpha, d.val)
convert_into_beta(d) == HybridDomain(Beta, d.val)

\* The variant held at height h (leaves are height 0) of a hybrid tree whose
\* lower beta_height layers use the Beta hasher.
TreeTag(h, beta_height) == IF h < beta_height THEN Beta ELSE Alpha

----------------------------------------------------------------------------
(* Hashing.  Digests are numbers; the node hash is injective (a collision   *)
(* free hash), and differs between the two hashers.                         *)

Pair(a, b) == (((a + b) * (a + b + 1)) \div 2) + b

\* Algorithm::node: the digest of (left, right) under the hasher of `tag`
HashNode(tag, left, right) == 2 * Pair(left, right) + (IF tag = Beta THEN 1 ELSE 0)

RECURSIVE HashList(_, _)
HashList(acc, vals) ==
    IF vals = <<>> THEN acc ELSE HashList(Pair(acc, Head(vals)) + 1, Tail(vals))

\* Blake2s over replica_id and the parents' values, then bytes_into_fr_repr_safe
KeyHash(rid, vals) == HashList(rid, vals) % Modulus

----------------------------------------------------------------------------
(* Graph (BucketGraph): parents(node) fills exactly Degree entries, sorted, *)
(* from (seed, node); nodes 0 and 1 reference node 0 only, every other      *)
(* node's parents are smaller than the node and the last one is node - 1.   *)

RECURSIVE Insert(_, _)
Insert(x, sorted) ==
    IF sorted = <<>> THEN <<x>>
    ELSE IF x <= Head(sorted) THEN <<x>> \o sorted
    ELSE <<Head(sorted)>> \o Insert(x, Tail(sorted))

RECURSIVE SortAsc(_)
SortAsc(s) == IF s = <<>> THEN <<>> ELSE Insert(Head(s), SortAsc(Tail(s)))

graph_size(graph) == graph.nodes
graph_degree(graph) == graph.degree

graph_parents(graph, node) ==
    IF node <= 1 THEN [k \in 1 .. graph.degree |-> 0]
    ELSE SortAsc([k \in 1 .. graph.degree |->
                    IF k = graph.degree THEN node - 1
                    ELSE (graph.seed * k + node + k) % node])

graph_new(nodes, degree, seed) == [nodes |-> nodes, degree |-> degree, seed |-> seed]

----------------------------------------------------------------------------
(* Hybrid Merkle tree and inclusion proofs *)

NextRow(row, n, tag) ==
    [i \in 0 .. (n \div 2 - 1) |-> HashNode(tag, row[2 * i], row[2 * i + 1])]

RECURSIVE BuildRows(_, _, _, _)
BuildRows(row, n, h, beta_height) ==
    IF n <= 1 THEN <<row>>
    ELSE <<row>> \o BuildRows(NextRow(row, n, TreeTag(h + 1, beta_height)),
                              n \div 2, h + 1, beta_height)

\* Graph::hybrid_merkle_tree(data, beta_height)
hybrid_merkle_tree(leaves, beta_height) ==
    [rows |-> BuildRows(leaves, Nodes, 0, beta_height), beta_height |-> beta_height]

tree_height(tree) == Len(tree.rows) - 1
tree_root(tree) ==
    HybridDomain(TreeTag(tree_height(tree), tree.beta_height), tree.rows[Len(tree.rows)][0])
read_at(tree, i) == HybridDomain(TreeTag(0, tree.beta_height), tree.rows[1][i])

Sibling(i) == IF i % 2 = 1 THEN i - 1 ELSE i + 1

gen_proof(tree, i) ==
    [root |-> tree_root(tree),
     leaf |-> read_at(tree, i),
     beta_height |-> tree.beta_height,
     path |-> [l \in 1 .. tree_height(tree) |->
                 LET j == i \div Pow2(l - 1)
                 IN  [hash |-> tree.rows[l][Sibling(j)], is_right |-> (j % 2 = 1)]]]

RECURSIVE path_index(_)
path_index(path) ==
    IF path = <<>> THEN 0
    ELSE (IF Head(path).is_right THEN 1 ELSE 0) + 2 * path_index(Tail(path))

RECURSIVE FoldPath(_, _, _, _)
FoldPath(h, path, l, beta_height) ==
    IF l > Len(path) THEN h
    ELSE LET tag == TreeTag(l, beta_height)
             next == IF path[l].is_right THEN HashNode(tag, path[l].hash, h)
                     ELSE HashNode(tag, h, path[l].hash)
         IN  FoldPath(next, path, l + 1, beta_height)

\* HybridMerkleProof::validate(node): the path leads to `node` and hashes to the root
validate(mp, node) ==
    /\ path_index(mp.path) = node
    /\ mp.root = HybridDomain(TreeTag(Len(mp.path), mp.beta_height),
                              FoldPath(mp.leaf.val, mp.path, 1, mp.beta_height))

\* HybridMerkleProof::validate_data(bytes): the bytes are the proof's leaf
validate_data(mp, bytes) == mp.leaf.val = bytes

----------------------------------------------------------------------------
(* vde: the per-node replication transform *)

\* create_key from the parents' values before replication
create_key_unencoded(graph, rid, node, buf) ==
    LET parents == graph_parents(graph, node)
    IN  IF node /= parents[1]
        THEN KeyHash(rid, [k \in 1 .. Len(parents) |-> original[parents[k]]])
        ELSE KeyHash(rid, <<>>)

\* create_key: hash of replica_id and the parents' current values; a node that
\* is its own first parent (node 0) has no parents to hash.
create_key(graph, rid, node, buf) ==
    LET parents == graph_parents(graph, node)
    IN  IF node /= parents[1]
        THEN KeyHash(rid, [k \in 1 .. Len(parents) |-> buf[parents[k]]])
        ELSE KeyHash(rid, <<>>)

RECURSIVE EncodeFrom(_, _, _, _)
EncodeFrom(graph, rid, buf, node) ==
    IF node >= graph_size(graph) THEN buf
    ELSE LET key == create_key(graph, rid, node, buf)
         IN  EncodeFrom(graph, rid, [buf EXCEPT ![node] = encode(key, buf[node])], node + 1)

\* vde::encode: every node in index order, in place
vde_encode(graph, rid, buf) == EncodeFrom(graph, rid, buf, 0)

\* vde::decode_block
decode_block(graph, rid, buf, node) == decode(create_key(graph, rid, node, buf), buf[node])

\* vde::decode
vde_decode(graph, rid, buf) ==
    [node \in 0 .. (graph_size(graph) - 1) |-> decode_block(graph, rid, buf, node)]

\* vde::decode_domain_block: the key comes from the replica tree's leaves; the
\* result carries the variant of the replica leaf it decodes.
decode_domain_block(rid, tree, node, leaf, parents) ==
    LET key == IF node /= parents[1]
               THEN KeyHash(rid, [k \in 1 .. Len(parents) |-> read_at(tree, parents[k]).val])
               ELSE KeyHash(rid, <<>>)
    IN  HybridDomain(leaf.tag, decode(key, leaf.val))

----------------------------------------------------------------------------
(* DrgPoRep *)

\* setup
setup_swapped(sp) ==
    [graph |-> graph_new(sp.nodes, sp.degree, sp.seed),
     private |-> sp.private,
     challenges_count |-> sp.challenges_count,
     beta_height |-> sp.prev_layer_beta_height,
     prev_layer_beta_height |-> sp.beta_height]
setup(sp) ==
    [graph |-> graph_new(sp.nodes, sp.degree, sp.seed),
     private |-> sp.private,
     challenges_count |-> sp.challenges_count,
     beta_height |-> sp.beta_height,
     prev_layer_beta_height |-> sp.prev_layer_beta_height]

\* replicate: (Tau, ProverAux, the buffer after the in-place encoding)
replicate(params, rid, buf, data_tree) ==
    LET tree_d == IF data_tree = None
                  THEN hybrid_merkle_tree(buf, params.prev_layer_beta_height)
                  ELSE data_tree
        encoded == vde_encode(params.graph, rid, buf)
        comm_d == tree_root(tree_d)
        tree_r == hybrid_merkle_tree(encoded, params.beta_height)
        comm_r == tree_root(tree_r)
    IN  [tau |-> [comm_d |-> comm_d, comm_r |-> comm_r],
         aux |-> [tree_d |-> tree_d, tree_r |-> tree_r],
         data |-> encoded]

extract_all(params, rid, buf) == vde_decode(params.graph, rid, buf)

extract(params, rid, buf, node) == decode_block(params.graph, rid, buf, node)

\* proves_challenge that compares the whole challenge with the path's index
proves_challenge_exact(dp, challenge) == path_index(dp.proof.path) = challenge

\* DataProof::proves_challenge
RECURSIVE ProvesFrom(_, _, _)
ProvesFrom(path, l, index_in_layer) ==
    IF l > Len(path) THEN TRUE
    ELSE LET is_right_calculated == (index_in_layer % 2) = 1
             bits_are_different == is_right_calculated /= path[l].is_right
         IN  IF bits_are_different THEN FALSE
             ELSE ProvesFrom(path, l + 1, index_in_layer \div 2)

proves_challenge(dp, challenge) == ProvesFrom(dp.proof.path, 1, challenge)

\* Proof::new
Proof_new(replica_nodes, replica_parents, nodes) ==
    [data_root |-> nodes[1].proof.root,
     replica_root |-> replica_nodes[1].proof.root,
     replica_nodes |-> replica_nodes,
     replica_parents |-> replica_parents,
     nodes |-> nodes]

\* One iteration of prove's loop: the evidence for one (reduced) challenge
ProveReplicaNode(priv, challenge) ==
    [data |-> read_at(priv.tree_r, challenge), proof |-> gen_proof(priv.tree_r, challenge)]

\* the parents' evidence gathered from the last parent to the first
ProveReplicaParents_reversed(params, priv, challenge) ==
    LET parents == graph_parents(params.graph, challenge)
    IN  [k \in 1 .. Len(parents) |->
            <<parents[Len(parents) + 1 - k],
              [proof |-> gen_proof(priv.tree_r, parents[Len(parents) + 1 - k]),
               data |-> read_at(priv.tree_r, parents[Len(parents) + 1 - k])]>>]

ProveReplicaParents(params, priv, challenge) ==
    LET parents == graph_parents(params.graph, challenge)
    IN  [k \in 1 .. Len(parents) |->
            <<parents[k], [proof |-> gen_proof(priv.tree_r, parents[k]),
                           data |-> read_at(priv.tree_r, parents[k])]>>]

ProveDataNode(params, rid, priv, challenge) ==
    LET tree_d_has_alpha_leaves == params.prev_layer_beta_height = 0
        decoded == decode_domain_block(rid, priv.tree_r, challenge,
                                       read_at(priv.tree_r, challenge),
                                       graph_parents(params.graph, challenge))
        extracted_node == IF tree_d_has_alpha_leaves THEN convert_into_alpha(decoded)
                          ELSE convert_into_beta(decoded)
    IN  [data |-> extracted_node, proof |-> gen_proof(priv.tree_d, challenge)]

\* prove's first assertion: len <= challenges_count
TooManyChallenges_off(len, count) == len > count + 1
TooManyChallenges(len, count) == ~(len <= count)

\* the node prove gathers evidence for: challenge % graph.size()
ProveChallenge_next(params, c) == (c + 1) % graph_size(params.graph)
ProveChallenge(params, c) == c % graph_size(params.graph)

\* prove's second assertion, per challenge: assert_ne!(challenge, 0)
ProveFirstNode_one(challenge) == challenge = 1
ProveFirstNode(challenge) == challenge = 0

\* prove with a Proof::new that takes empty vectors: no roots, no entries
prove_empty(params, inputs, priv) ==
    LET len == Len(inputs.challenges)
        reduced == [i \in 1 .. len |-> ProveChallenge(params, inputs.challenges[i])]
    IN  IF TooManyChallenges(len, params.challenges_count)
        THEN [status |-> "too many challenges", proof |-> None]
        ELSE IF len > 0 /\ ~ProveFirstNode(reduced[1]) /\ inputs.replica_id = <<>>
        THEN [status |-> "missing replica_id", proof |-> None]
        ELSE IF \E i \in 1 .. len : ProveFirstNode(reduced[i])
        THEN [status |-> "cannot prove the first node", proof |-> None]
        ELSE IF len = 0
        THEN [status |-> "ok",
              proof |-> [data_root |-> None, replica_root |-> None,
                         replica_nodes |-> <<>>, replica_parents |-> <<>>, nodes |-> <<>>]]
        ELSE [status |-> "ok",
              proof |-> Proof_new(
                  [i \in 1 .. len |-> ProveReplicaNode(priv, reduced[i])],
                  [i \in 1 .. len |-> ProveReplicaParents(params, priv, reduced[i])],
                  [i \in 1 .. len |-> ProveDataNode(params, inputs.replica_id[1], priv, reduced[i])])]

\* prove: the Proof, or the assertion (or expect) that stopped it.
\* inputs.replica_id is an Option: <<x>> for Some(x), <<>> for None.
prove(params, inputs, priv) ==
    LET len == Len(inputs.challenges)
        reduced == [i \in 1 .. len |-> ProveChallenge(params, inputs.challenges[i])]
    IN  IF TooManyChallenges(len, params.challenges_count)
        THEN [status |-> "too many challenges", proof |-> None]
        ELSE IF len > 0 /\ ~ProveFirstNode(reduced[1]) /\ inputs.replica_id = <<>>
        THEN [status |-> "missing replica_id", proof |-> None]
        ELSE IF \E i \in 1 .. len : ProveFirstNode(reduced[i])
        THEN [status |-> "cannot prove the first node", proof |-> None]
        ELSE IF len = 0
        THEN [status |-> "index out of bounds", proof |-> None]
        ELSE [status |-> "ok",
              proof |-> Proof_new(
                  [i \in 1 .. len |-> ProveReplicaNode(priv, reduced[i])],
                  [i \in 1 .. len |-> ProveReplicaParents(params, priv, reduced[i])],
                  [i \in 1 .. len |-> ProveDataNode(params, inputs.replica_id[1], priv, reduced[i])])]

----------------------------------------------------------------------------
(* verify *)

\* challenges[i] >= graph.size()
ChallengeOutOfRange_reduced(params, c) ==
    c % graph_size(params.graph) >= graph_size(params.graph)
ChallengeOutOfRange_off(params, c) == c > graph_size(params.graph)
ChallengeOutOfRange(params, c) == c >= graph_size(params.graph)

\* the zip(...).all(...) over claimed and expected parent indices
parents_as_expected_any(actual, expected) ==
    \E k \in 1 .. Len(expected) : k <= Len(actual) /\ actual[k][1] = expected[k]
parents_as_expected(actual, expected) ==
    \A k \in 1 .. Len(expected) : k <= Len(actual) => actual[k][1] = expected[k]

\* every parent's inclusion proof validates for the parent index the Proof claims
parents_validate_self(parents) ==
    \A k \in 1 .. Len(parents) : validate(parents[k][2].proof, path_index(parents[k][2].proof.path))
parents_validate(parents) ==
    \A k \in 1 .. Len(parents) : validate(parents[k][2].proof, parents[k][1])

\* the key verify recomputes: replica_id and the leaf values the Proof claims
\* for the parents (the first variant leaves replica_id out)
VerifyKey_norid(rid, parents) ==
    KeyHash(0, [k \in 1 .. Len(parents) |-> parents[k][2].data.val])
VerifyKey(rid, parents) ==
    KeyHash(rid, [k \in 1 .. Len(parents) |-> parents[k][2].data.val])

\* the decoded value left in the variant of the layer it was decoded in
VerifyUnsealed_unconverted(params, key, replica_data) ==
    HybridDomain(IF params.beta_height = 0 THEN Alpha ELSE Beta,
                 decode(key, replica_data.val))

\* the value verify decodes from the Proof's replica leaf, tagged for tree_d
VerifyUnsealed(params, key, replica_data) ==
    LET curr_layer_is_alpha == params.beta_height = 0
        prev_layer_is_alpha == params.prev_layer_beta_height = 0
    IN  IF curr_layer_is_alpha
        THEN LET decoded == HybridDomain(Alpha, decode(key, replica_data.val))
             IN  IF ~prev_layer_is_alpha THEN convert_into_beta(decoded) ELSE decoded
        ELSE LET decoded == HybridDomain(Beta, decode(key, replica_data.val))
             IN  IF prev_layer_is_alpha THEN convert_into_alpha(decoded) ELSE decoded

Unsealed(params, inputs, prf, i) ==
    VerifyUnsealed(params, VerifyKey(inputs.replica_id[1], prf.replica_parents[i + 1]),
                   prf.replica_nodes[i + 1].data)

Returned(ret, i, check) == [ret |-> ret, at |-> i, check |-> check]

\* what verify does when the Proof's parent count is not the graph's degree:
\* return Ok(false) (the first variant raises instead)
ParentCountMismatch_raise(i) == Returned("abort", i, "parents_len")
ParentCountMismatch(i) == Returned("false", i, "parents_len")

\* One iteration of verify's loop, for the challenge at 0-based position i:
\* "pass", or the return / abort that ends verify there.
VerifyChallenge(params, inputs, prf, i) ==
    LET c == inputs.challenges[i + 1]
        expected_parents == graph_parents(params.graph, c)
        challenge == c % graph_size(params.graph)
        curr_layer_is_alpha == params.beta_height = 0
    IN  IF ChallengeOutOfRange(params, c) THEN Returned("false", i, "range")
        ELSE IF i + 1 > Len(prf.nodes) THEN Returned("abort", i, "index")
        ELSE IF ~proves_challenge(prf.nodes[i + 1], c) THEN Returned("false", i, "data_path")
        ELSE IF i + 1 > Len(prf.replica_nodes) THEN Returned("abort", i, "index")
        ELSE IF ~proves_challenge(prf.replica_nodes[i + 1], c)
        THEN Returned("false", i, "replica_path")
        ELSE IF i + 1 > Len(prf.replica_parents) THEN Returned("abort", i, "index")
        ELSE IF Len(prf.replica_parents[i + 1]) /= Len(expected_parents)
        THEN ParentCountMismatch(i)
        ELSE IF ~parents_as_expected(prf.replica_parents[i + 1], expected_parents)
        THEN Returned("false", i, "parents")
        ELSE IF challenge = 0 THEN Returned("abort", i, "cannot prove the first node")
        ELSE IF ~validate(prf.replica_nodes[i + 1].proof, challenge)
        THEN Returned("false", i, "replica_validate")
        ELSE IF ~parents_validate(prf.replica_parents[i + 1])
        THEN Returned("false", i, "parent_validate")
        ELSE IF inputs.replica_id = <<>> THEN Returned("abort", i, "missing replica_id")
        ELSE IF prf.replica_nodes[i + 1].data.tag /= (IF curr_layer_is_alpha THEN Alpha ELSE Beta)
        THEN Returned("abort", i, "hybrid variant")
        ELSE IF Unsealed(params, inputs, prf, i) /= prf.nodes[i + 1].data
        THEN Returned("false", i, "unsealed")
        ELSE IF ~validate_data(prf.nodes[i + 1].proof, Unsealed(params, inputs, prf, i).val)
        THEN Returned("false", i, "data_validate")
        ELSE Returned("pass", i, "none")

\* the loop from position i on, stopping at the first return, without a look at
\* the challenges after it
RECURSIVE VerifyFrom_lenient(_, _, _, _)
VerifyFrom_lenient(params, inputs, prf, i) ==
    IF i >= Len(inputs.challenges) THEN Returned("true", i, "none")
    ELSE LET r == VerifyChallenge(params, inputs, prf, i)
             rest == VerifyFrom_lenient(params, inputs, prf, i + 1)
         IN  IF r.ret = "pass" \/ (r.ret = "false" /\ rest.ret = "true") THEN rest ELSE r

RECURSIVE VerifyFrom(_, _, _, _)
VerifyFrom(params, inputs, prf, i) ==
    IF i >= Len(inputs.challenges) THEN Returned("true", i, "none")
    ELSE LET r == VerifyChallenge(params, inputs, prf, i)
         IN  IF r.ret = "pass" THEN VerifyFrom(params, inputs, prf, i + 1) ELSE r

\* verify with a look at the Proof's length before the loop
verify_counted(params, inputs, prf) ==
    IF Len(prf.nodes) /= Len(inputs.challenges) THEN Returned("false", 0, "length")
    ELSE VerifyFrom(params, inputs, prf, 0)

\* verify
verify(params, inputs, prf) == VerifyFrom(params, inputs, prf, 0)

----------------------------------------------------------------------------
(* Inputs *)

Seeds == 0 .. MaxSeed
BetaHeights == {0, BETA_HEIGHT}
PrevBetaHeights == {0, TreeHeight + 1}
ChallengeCounts == {ChallengesCountOne, ChallengesCountTwo}
AllData == [NodeIds -> 0 .. MaxData]
\* the extract tests' constant data, and data that differs from node to node
SampleData == {[i \in NodeIds |-> TestByte], [i \in NodeIds |-> (i + TestByte) % Modulus]}
SampleReplicaIds == {1}

\* Challenge lists: in range, zero, equal to the graph size, and beyond it
ChallengeValues == 0 .. (Nodes + 1)
ChallengeLists ==
    UNION {[1 .. n -> ChallengeValues] : n \in 0 .. ChallengesCountTwo}

----------------------------------------------------------------------------
(* A prover who holds both trees can also hand verify a Proof that prove    *)
(* did not return (prove_verify_aux builds such Proofs with Proof::new).    *)

SetEntry(seq, i, e) == [seq EXCEPT ![i] = e]

\* entry i becomes the evidence for node q
ReplaceEntry(prf, params, rid, priv, i, q) ==
    Proof_new(SetEntry(prf.replica_nodes, i, ProveReplicaNode(priv, q)),
              SetEntry(prf.replica_parents, i, ProveReplicaParents(params, priv, q)),
              SetEntry(prf.nodes, i, ProveDataNode(params, rid, priv, q)))

\* fake_parents: every claimed parent index of entry i incremented, proofs kept
IncrementParents(prf, i) ==
    [prf EXCEPT !.replica_parents[i] =
        [k \in 1 .. Len(@) |-> <<@[k][1] + 1, @[k][2]>>]]

\* fake_proof_parents: the claimed index kept, the DataProof that of node q
SetParentProof(prf, priv, i, k, q) ==
    [prf EXCEPT !.replica_parents[i][k] = <<@[1], ProveReplicaNode(priv, q)>>]

\* one parent replaced by node q together with q's DataProof
SetParent(prf, priv, i, k, q) ==
    [prf EXCEPT !.replica_parents[i][k] = <<q, ProveReplicaNode(priv, q)>>]

\* the parents of entry i in reverse order
ReverseParents(prf, i) ==
    [prf EXCEPT !.replica_parents[i] = [k \in 1 .. Len(@) |-> @[Len(@) + 1 - k]]]

\* fake_proof_parents on the evidence of node 0, which prove never returns
FirstNodeParentProof(prf, params, rid, priv, i, k, q) ==
    SetParentProof(ReplaceEntry(prf, params, rid, priv, i, 0), priv, i, k, q)

\* a Proof whose three vectors do not have the same length (the fields are pub)
DropLast(seq) == SubSeq(seq, 1, Len(seq) - 1)
TruncateNodes(prf) == [prf EXCEPT !.nodes = DropLast(@)]
TruncateReplicaNodes(prf) == [prf EXCEPT !.replica_nodes = DropLast(@)]
TruncateReplicaParents(prf) == [prf EXCEPT !.replica_parents = DropLast(@)]

\* Proofs of a shape prove never returns: entry i's parent list one parent
\* short; entry i's replica leaf, or its decoded leaf, given as the other
\* HybridDomain variant; the leaf values `data` of entry i's replica node and
\* of one of its parents replaced, the replica leaf by any field value and the
\* parent's by itself or its successor, their inclusion proofs kept
MalformedProofs(prf) ==
    UNION {{[prf EXCEPT !.replica_parents[i] = DropLast(@)],
            [prf EXCEPT !.replica_nodes[i].data =
                HybridDomain(IF @.tag = Alpha THEN Beta ELSE Alpha, @.val)],
            [prf EXCEPT !.nodes[i].data =
                HybridDomain(IF @.tag = Alpha THEN Beta ELSE Alpha, @.val)]}
           \cup {[prf EXCEPT !.replica_nodes[i].data = HybridDomain(@.tag, w),
                             !.replica_parents[i][k][2].data =
                                 HybridDomain(@.tag, (@.val + d) % Modulus)]
                    : k \in 1 .. Len(prf.replica_parents[i]), d \in {0, 1}, w \in Field}
           : i \in 1 .. Len(prf.nodes)}

\* the Proofs prove returns, for the same PublicInputs, on the trees of a
\* replication of other data
ForeignProofs(params, inputs, buf) ==
    {prove(params, inputs, replicate(params, inputs.replica_id[1], other, None).aux).proof :
        other \in SampleData \ {buf}}

TamperedProofs(prf, params, rid, priv) ==
    LET entries == 1 .. Len(prf.nodes)
        slots == 1 .. graph_degree(params.graph)
    IN  {TruncateNodes(prf), TruncateReplicaNodes(prf), TruncateReplicaParents(prf)}
        \cup UNION {
          {ReplaceEntry(prf, params, rid, priv, i, q) : q \in NodeIds}
          \cup {IncrementParents(prf, i), ReverseParents(prf, i)}
          \cup {SetParentProof(prf, priv, i, k, q) : k \in slots, q \in NodeIds}
          \cup {SetParent(prf, priv, i, k, q) : k \in slots, q \in NodeIds}
          \cup {FirstNodeParentProof(prf, params, rid, priv, i, k, q) :
                    k \in slots, q \in NodeIds}
          : i \in entries}

----------------------------------------------------------------------------
(* The protocol run *)

NoData == <<>>

Init ==
    /\ pc = "init"
    /\ pp = None
    /\ replica_id = 0
    /\ original = NoData
    /\ data = NoData
    /\ tau = None
    /\ aux = None
    /\ pub_inputs = None
    /\ prove_out = None
    /\ proof = None
    /\ ver_inputs = None
    /\ verify_out = None
    /\ extracted = None
    /\ enc = None
    /\ call = None
    /\ reg = None

Setup(seeds, counts, betas, prevs) ==
    /\ pc = "init"
    /\ \E seed \in seeds, count \in counts, bh \in betas, pbh \in prevs :
          pp' = setup([nodes |-> Nodes, degree |-> Degree, seed |-> seed,
                       private |-> FALSE, challenges_count |-> count,
                       beta_height |-> bh, prev_layer_beta_height |-> pbh])
    /\ pc' = "setup"
    /\ UNCHANGED <<replica_id, original, data, tau, aux, pub_inputs, prove_out,
                   proof, ver_inputs, verify_out, extracted, enc, call, reg>>

Replicate(rids, bufs) ==
    /\ pc = "setup"
    /\ \E rid \in rids, buf \in bufs :
          LET out == replicate(pp, rid, buf, None)
          IN  /\ replica_id' = rid
              /\ original' = buf
              /\ data' = out.data
              /\ tau' = out.tau
              /\ aux' = out.aux
    /\ pc' = "replicated"
    /\ UNCHANGED <<pp, pub_inputs, prove_out, proof, ver_inputs, verify_out,
                   extracted, enc, call, reg>>

ExtractAll ==
    /\ pc = "replicated"
    /\ extracted' = [all |-> TRUE, node |-> Nodes, bytes |-> extract_all(pp, replica_id, data)]
    /\ pc' = "extracted"
    /\ UNCHANGED <<pp, replica_id, original, data, tau, aux, pub_inputs, prove_out,
                   proof, ver_inputs, verify_out, enc, call, reg>>

Extract ==
    /\ pc = "replicated"
    /\ \E node \in NodeIds :
          extracted' = [all |-> FALSE, node |-> node,
                        bytes |-> extract(pp, replica_id, data, node)]
    /\ pc' = "extracted"
    /\ UNCHANGED <<pp, replica_id, original, data, tau, aux, pub_inputs, prove_out,
                   proof, ver_inputs, verify_out, enc, call, reg>>

\* given: whether the PublicInputs carry the replica id (Some) or not (None)
Prove(given) ==
    /\ pc = "replicated"
    /\ \E challenges \in ChallengeLists, g \in given :
          LET inputs == [replica_id |-> IF g THEN <<replica_id>> ELSE <<>>,
                         challenges |-> challenges, tau |-> tau]
              out == prove(pp, inputs, aux)
          IN  /\ pub_inputs' = inputs
              /\ prove_out' = out
              /\ proof' = out.proof
              /\ pc' = IF out.status = "ok" THEN "proved" ELSE "aborted"
    /\ UNCHANGED <<pp, replica_id, original, data, tau, aux, ver_inputs, verify_out,
                   extracted, enc, call, reg>>

Tamper(malformed) ==
    /\ pc = "proved"
    /\ \E forged \in TamperedProofs(proof, pp, replica_id, aux)
                        \cup (IF malformed
                              THEN MalformedProofs(proof)
                                   \cup ForeignProofs(pp, pub_inputs, original)
                              ELSE {}) :
          /\ forged /= proof
          /\ proof' = forged
    /\ pc' = "tampered"
    /\ UNCHANGED <<pp, replica_id, original, data, tau, aux, pub_inputs, prove_out,
                   ver_inputs, verify_out, extracted, enc, call, reg>>

Verify(given) ==
    /\ pc \in {"proved", "tampered"}
    /\ \E challenges \in ChallengeLists, g \in given :
          LET inputs == [replica_id |-> IF g THEN <<replica_id>> ELSE <<>>,
                         challenges |-> challenges, tau |-> tau]
          IN  /\ ver_inputs' = inputs
              /\ verify_out' = verify(pp, inputs, proof)
    /\ pc' = "verified"
    /\ UNCHANGED <<pp, replica_id, original, data, tau, aux, pub_inputs, prove_out,
                   proof, extracted, enc, call, reg>>

\* setup, replicate, prove, verify: every graph seed, challenge count and layer
\* configuration; sample data.
Next ==
    \/ Setup(Seeds, ChallengeCounts, BetaHeights, PrevBetaHeights)
    \/ Replicate(SampleReplicaIds, SampleData)
    \/ Prove({TRUE})
    \/ Tamper(FALSE)
    \/ Verify({TRUE})

Spec == Init /\ [][Next]_vars

\* verify on every Proof shape and on PublicInputs with and without a replica
\* id: one graph seed, the tests' data
NextVerify ==
    \/ Setup({0}, ChallengeCounts, BetaHeights, PrevBetaHeights)
    \/ Replicate(SampleReplicaIds, {[i \in NodeIds |-> TestByte]})
    \/ Prove(BOOLEAN)
    \/ Tamper(TRUE)
    \/ Verify(BOOLEAN)

SpecVerify == Init /\ [][NextVerify]_vars

\* setup, replicate, extract: every replica id and all data over 0 .. MaxData
NextExtract ==
    \/ Setup(Seeds, {ChallengesCountOne}, {BETA_HEIGHT}, {TreeHeight + 1})
    \/ Replicate(Field, AllData)
    \/ ExtractAll
    \/ Extract

SpecExtract == Init /\ [][NextExtract]_vars

----------------------------------------------------------------------------
(* encode / decode calls on every pair of field values *)

InitEncode ==
    /\ pc = "encode"
    /\ enc \in [key : Field, value : Field, encoded : {-1}, decoded : {-1}]
    /\ pp = None
    /\ replica_id = 0
    /\ original = NoData
    /\ data = NoData
    /\ tau = None
    /\ aux = None
    /\ pub_inputs = None
    /\ prove_out = None
    /\ proof = None
    /\ ver_inputs = None
    /\ verify_out = None
    /\ extracted = None
    /\ call = None
    /\ reg = None

Encode ==
    /\ pc = "encode"
    /\ enc' = [enc EXCEPT !.encoded = encode(enc.key, enc.value)]
    /\ pc' = "decode"
    /\ UNCHANGED <<pp, replica_id, original, data, tau, aux, pub_inputs, prove_out,
                   proof, ver_inputs, verify_out, extracted, call, reg>>

Decode ==
    /\ pc = "decode"
    /\ enc' = [enc EXCEPT !.decoded = decode(enc.key, enc.encoded)]
    /\ pc' = "decoded"
    /\ UNCHANGED <<pp, replica_id, original, data, tau, aux, pub_inputs, prove_out,
                   proof, ver_inputs, verify_out, extracted, call, reg>>

NextEncode == Encode \/ Decode

SpecEncode == InitEncode /\ [][NextEncode]_vars

----------------------------------------------------------------------------
(* The halo Domains: PoseidonDomain<F> and Sha256Domain<F>, F one of the Pasta
   fields.  A Domain is its 32-byte little-endian repr. *)

ByteLen == 32       \* Element::byte_len()

\* the moduli of the Pasta fields, little-endian
ModulusBytes(F) ==
    IF F = "Fp"
    THEN <<1, 0, 0, 0, 237, 48, 45, 153, 27, 249, 76, 9, 252, 152, 70, 34,
           0, 0, 0, 0, 0, 0, 0, 0, 0, 0, 0, 0, 0, 0, 0, 64>>
    ELSE <<1, 0, 0, 0, 33, 235, 70, 140, 221, 168, 148, 9, 252, 152, 70, 34,
           0, 0, 0, 0, 0, 0, 0, 0, 0, 0, 0, 0, 0, 0, 0, 64>>

\* F::from_repr_vartime(repr) is Some: the little-endian integer is below the
\* modulus (compared from the most significant byte down)
Canonical(F, repr) ==
    LET RECURSIVE Below(_)
        Below(k) == IF k = 0 THEN FALSE
                    ELSE IF repr[k] < ModulusBytes(F)[k] THEN TRUE
                    ELSE IF repr[k] > ModulusBytes(F)[k] THEN FALSE
                    ELSE Below(k - 1)
    IN  Below(ByteLen)

\* results: Ok(value), Err(..) and a panic
Ok(v) == [ret |-> "ok", value |-> v]
Failed(how, msg) == [ret |-> how, value |-> msg]

\* the byte slices the operations are called on: constant fills of length
\* 0, 31, 32 and 33, and the moduli with their neighbours
SampleSlices ==
    {[k \in 1 .. len |-> b] : len \in {0, ByteLen - 1, ByteLen, ByteLen + 1},
                              b \in {0, 1, 255}}
    \cup UNION {{ModulusBytes(F), [ModulusBytes(F) EXCEPT ![1] = 0],
                 [ModulusBytes(F) EXCEPT ![1] = 2]} : F \in {"Fp", "Fq"}}

\* PoseidonDomain::try_from_bytes (the first variant takes any slice that is
\* long enough)
try_from_bytes_prefix(bytes) ==
    IF Len(bytes) < ByteLen THEN Failed("error", "invalid amount of bytes")
    ELSE Ok([repr |-> SubSeq(bytes, 1, ByteLen)])
try_from_bytes(bytes) ==
    IF Len(bytes) /= ByteLen THEN Failed("error", "invalid amount of bytes")
    ELSE Ok([repr |-> bytes])

\* PoseidonDomain::write_bytes: the result and dest after the call
write_bytes(domain, dest) ==
    IF Len(dest) /= ByteLen
    THEN [out |-> Failed("error", "invalid amount of bytes"), dest |-> dest]
    ELSE [out |-> Ok(<<>>), dest |-> domain.repr]

\* groth::Sha256Domain::try_from_bytes and write_bytes, which the halo
\* Sha256Domain calls
groth_try_from_bytes(bytes) ==
    IF Len(bytes) /= ByteLen THEN Failed("error", "InvalidLength")
    ELSE Ok([repr |-> bytes])
groth_write_bytes(domain, dest) ==
    IF Len(dest) /= ByteLen
    THEN [out |-> Failed("error", "InvalidLength"), dest |-> dest]
    ELSE [out |-> Ok(<<>>), dest |-> domain.repr]

\* the other constructors of PoseidonDomain: From<[u8; 32]>, Deserialize,
\* Element::from_slice, Domain::random (bytes: the repr of the element the rng
\* yields) and Default
construct(ctor, bytes) ==
    CASE ctor = "from" -> Ok([repr |-> bytes])
      [] ctor = "deserialize" ->
            IF Len(bytes) /= ByteLen THEN Failed("error", "invalid length")
            ELSE Ok([repr |-> bytes])
      [] ctor = "from_slice" ->
            IF try_from_bytes(bytes).ret = "ok" THEN try_from_bytes(bytes)
            ELSE Failed("panic", try_from_bytes(bytes).value)
      [] ctor = "random" -> Ok([repr |-> bytes])
      [] ctor = "default" -> Ok([repr |-> [k \in 1 .. ByteLen |-> 0]])

\* From<Fr> for the halo Domains and Into<Fr>
convert_fr_repr(direction, x) == Ok(x)
convert_fr(direction, x) ==
    IF direction = "from_fr"
    THEN Failed("panic", "cannot convert BLS12-381 scalar to halo Domain")
    ELSE Failed("panic", "cannot convert halo Domain into BLS12-381 scalar")

TryFromBytes ==
    /\ pc = "init"
    /\ \E kind \in {"PoseidonDomain", "Sha256Domain"}, F \in {"Fp", "Fq"},
          bytes \in SampleSlices :
          call' = [op |-> "try_from_bytes", kind |-> kind, field |-> F, bytes |-> bytes,
                   out |-> IF kind = "PoseidonDomain" THEN try_from_bytes(bytes)
                           ELSE groth_try_from_bytes(bytes)]
    /\ pc' = "returned"
    /\ UNCHANGED <<pp, replica_id, original, data, tau, aux, pub_inputs, prove_out,
                   proof, ver_inputs, verify_out, extracted, enc, reg>>

WriteBytes ==
    /\ pc = "init"
    /\ \E kind \in {"PoseidonDomain", "Sha256Domain"},
          bytes \in {b \in SampleSlices : Len(b) = ByteLen}, dest \in SampleSlices :
          LET r == IF kind = "PoseidonDomain" THEN write_bytes([repr |-> bytes], dest)
                   ELSE groth_write_bytes([repr |-> bytes], dest)
          IN  call' = [op |-> "write_bytes", kind |-> kind, bytes |-> bytes,
                       dest |-> dest, out |-> r.out, dest_after |-> r.dest]
    /\ pc' = "returned"
    /\ UNCHANGED <<pp, replica_id, original, data, tau, aux, pub_inputs, prove_out,
                   proof, ver_inputs, verify_out, extracted, enc, reg>>

\* From and Default take no slice: a [u8; 32], or nothing; the rng of random
\* yields a field element
Construct ==
    /\ pc = "init"
    /\ \E F \in {"Fp", "Fq"},
          ctor \in {"from", "deserialize", "from_slice", "random", "default"},
          bytes \in SampleSlices :
          /\ ctor \in {"from", "default", "random"} => Len(bytes) = ByteLen
          /\ ctor = "random" => Canonical(F, bytes)
          /\ call' = [op |-> ctor, kind |-> "PoseidonDomain", field |-> F,
                      bytes |-> bytes, out |-> construct(ctor, bytes)]
    /\ pc' = "returned"
    /\ UNCHANGED <<pp, replica_id, original, data, tau, aux, pub_inputs, prove_out,
                   proof, ver_inputs, verify_out, extracted, enc, reg>>

\* x: the repr of the BLS12-381 scalar, or of the Domain
ConvertFr ==
    /\ pc = "init"
    /\ \E kind \in {"PoseidonDomain", "Sha256Domain"},
          direction \in {"from_fr", "into_fr"},
          x \in {b \in SampleSlices : Len(b) = ByteLen} :
          call' = [op |-> direction, kind |-> kind, bytes |-> x,
                   out |-> convert_fr(direction, x)]
    /\ pc' = "returned"
    /\ UNCHANGED <<pp, replica_id, original, data, tau, aux, pub_inputs, prove_out,
                   proof, ver_inputs, verify_out, extracted, enc, reg>>

MaxPreimage == 9    \* multi_node on 0 .. MaxPreimage Domains

\* shared_hash_frs: the Poseidon digest of 2, 4 or 8 field elements, as the
\* repr of a field element (a deterministic stand-in for the permutation:
\* byte k is the weighted sum of the inputs' bytes k, the top byte below 64)
shared_hash_frs(preimage) ==
    LET RECURSIVE Sum(_, _)
        Sum(k, i) == IF i = 0 THEN 0 ELSE i * preimage[i].repr[k] + Sum(k, i - 1)
    IN  [repr |-> [k \in 1 .. ByteLen |->
                    Sum(k, Len(preimage)) % (IF k = ByteLen THEN 64 ELSE 256)]]

\* PoseidonFunction::multi_node
multi_node(F, preimage) ==
    IF Len(preimage) \in {2, 4, 8}
    THEN IF \E i \in 1 .. Len(preimage) : ~Canonical(F, preimage[i].repr)
         THEN Failed("panic", "from_repr failure")
         ELSE Ok(shared_hash_frs(preimage))
    ELSE Failed("panic", "unsupported Halo Poseidon hasher arity")

\* the preimage: Domains of repr 1, 1, .., with the Domain From<[u8; 32]>
\* returns for 32 bytes of 255 at position odd (0: nowhere)
MultiNode ==
    /\ pc = "init"
    /\ \E F \in {"Fp", "Fq"}, n \in 0 .. MaxPreimage, odd \in 0 .. MaxPreimage :
          /\ odd <= n
          /\ LET preimage ==
                    [k \in 1 .. n |->
                        construct("from", [j \in 1 .. ByteLen |->
                                              IF k = odd THEN 255 ELSE 1]).value]
              IN  call' = [op |-> "multi_node", kind |-> "PoseidonDomain", field |-> F,
                           preimage |-> preimage, out |-> multi_node(F, preimage)]
    /\ pc' = "returned"
    /\ UNCHANGED <<pp, replica_id, original, data, tau, aux, pub_inputs, prove_out,
                   proof, ver_inputs, verify_out, extracted, enc, reg>>

MDArity == 3    \* PoseidonMDArity::to_usize(), scaled down

\* PoseidonFunction::hash_md: the digest, and the elements each permutation
\* absorbed between its reset and its hash, call by call
hash_md(F, input) ==
    IF Len(input) <= 1
    THEN Failed("panic", "hash_md preimage must contain more than one element")
    ELSE IF \E i \in 1 .. Len(input) : ~Canonical(F, input[i].repr)
    THEN Failed("panic", "from_repr failure")
    ELSE LET RECURSIVE Fold(_, _, _)
             Fold(acc, from, calls) ==
                 IF from > Len(input)
                 THEN [digest |-> acc, calls |-> calls]
                 ELSE LET to == IF from + MDArity - 2 < Len(input)
                                THEN from + MDArity - 2 ELSE Len(input)
                          absorbed == <<acc>> \o SubSeq(input, from, to)
                      IN  IF Len(absorbed) > MDArity
                          THEN [digest |-> None, calls |-> Append(calls, absorbed)]
                          ELSE Fold(shared_hash_frs(absorbed), to + 1,
                                    Append(calls, absorbed))
         IN  LET folded == Fold(input[1], 2, <<>>)
             IN  IF folded.digest = None THEN Failed("panic", "input failure")
                 ELSE Ok(folded)

\* the input: Domain k of n holds 32 bytes of k, but for the Domain
\* From<[u8; 32]> returns for 32 bytes of 255 at position odd (0: nowhere)
HashMd ==
    /\ pc = "init"
    /\ \E F \in {"Fp", "Fq"}, n \in 0 .. MaxPreimage, odd \in 0 .. MaxPreimage :
          /\ odd <= n
          /\ LET input ==
                    [k \in 1 .. n |->
                        construct("from", [j \in 1 .. ByteLen |->
                                              IF k = odd THEN 255 ELSE k]).value]
              IN  call' = [op |-> "hash_md", kind |-> "PoseidonDomain", field |-> F,
                           preimage |-> input, out |-> hash_md(F, input)]
    /\ pc' = "returned"
    /\ UNCHANGED <<pp, replica_id, original, data, tau, aux, pub_inputs, prove_out,
                   proof, ver_inputs, verify_out, extracted, enc, reg>>

\* proves_challenge on a DataProof whose path has 0 .. TreeHeight + 1 levels
\* with any is_right bits, for a challenge of up to TreeHeight + 2 bits
ProvesChallenge ==
    /\ pc = "init"
    /\ \E n \in 0 .. (TreeHeight + 1), challenge \in 0 .. (Pow2(TreeHeight + 2) - 1) :
          \E bits \in [1 .. n -> BOOLEAN] :
             LET dp == [data |-> HybridDomain(Alpha, 0),
                        proof |-> [root |-> HybridDomain(Alpha, 0),
                                   leaf |-> HybridDomain(Alpha, 0),
                                   beta_height |-> 0,
                                   path |-> [l \in 1 .. n |->
                                               [hash |-> HybridDomain(Alpha, 0),
                                                is_right |-> bits[l]]]]]
             IN  call' = [op |-> "proves_challenge", kind |-> "DataProof", dp |-> dp,
                          challenge |-> challenge, out |-> proves_challenge(dp, challenge)]
    /\ pc' = "returned"
    /\ UNCHANGED <<pp, replica_id, original, data, tau, aux, pub_inputs, prove_out,
                   proof, ver_inputs, verify_out, extracted, enc, reg>>

\* the n low bytes of val, little-endian (write_u32::<LittleEndian> for n = 4,
\* a Domain's write_bytes for n = ByteLen)
RECURSIVE LEBytes(_, _)
LEBytes(val, n) == IF n = 0 THEN <<>> ELSE <<val % 256>> \o LEBytes(val \div 256, n - 1)

\* HybridMerkleProof::serialize: the inclusion-proof bytes (per level the
\* sibling hash and the is_right flag, then the root)
merkle_proof_serialize(mp) ==
    LET RECURSIVE Levels(_)
        Levels(l) == IF l > Len(mp.path) THEN <<>>
                     ELSE LEBytes(mp.path[l].hash, ByteLen)
                          \o <<IF mp.path[l].is_right THEN 1 ELSE 0>> \o Levels(l + 1)
    IN  Levels(1) \o LEBytes(mp.root.val, ByteLen)

\* DataProof::serialize
DataProof_serialize(dp) ==
    LET out == merkle_proof_serialize(dp.proof)
        resized == out \o [k \in 1 .. 32 |-> 0]
    IN  SubSeq(resized, 1, Len(out)) \o LEBytes(dp.data.val, ByteLen)

\* Proof::serialize: v starts as four zero bytes and write_u32 appends to it
Proof_serialize(prf) ==
    LET RECURSIVE Parents(_, _)
        Parents(parents, k) ==
            IF k > Len(parents) THEN <<>>
            ELSE LET v == <<0, 0, 0, 0>> \o LEBytes(parents[k][1], 4)
                 IN  v \o DataProof_serialize(parents[k][2]) \o Parents(parents, k + 1)
        RECURSIVE Entries(_)
        Entries(i) ==
            IF i > Len(prf.nodes) THEN <<>>
            ELSE DataProof_serialize(prf.replica_nodes[i])
                 \o Parents(prf.replica_parents[i], 1)
                 \o DataProof_serialize(prf.nodes[i])
                 \o Entries(i + 1)
    IN  IF Len(prf.replica_nodes) < Len(prf.nodes) \/ Len(prf.replica_parents) < Len(prf.nodes)
        THEN Failed("panic", "index out of bounds")
        ELSE Ok(Entries(1))

\* serialize on the Proofs prove returns, and on those with their parent
\* indices incremented
Serialize ==
    /\ pc = "init"
    /\ \E bh \in BetaHeights, buf \in SampleData, challenges \in ChallengeLists,
          fake \in BOOLEAN :
          LET params == setup([nodes |-> Nodes, degree |-> Degree, seed |-> 0,
                               private |-> FALSE, challenges_count |-> ChallengesCountTwo,
                               beta_height |-> bh, prev_layer_beta_height |-> 0])
              rep == replicate(params, 1, buf, None)
              out == prove(params, [replica_id |-> <<1>>, challenges |-> challenges,
                                    tau |-> rep.tau], rep.aux)
              prf == IF fake THEN IncrementParents(out.proof, 1) ELSE out.proof
          IN  /\ out.status = "ok"
              /\ call' = [op |-> "serialize", proof |-> prf, out |-> Proof_serialize(prf)]
    /\ pc' = "returned"
    /\ UNCHANGED <<pp, replica_id, original, data, tau, aux, pub_inputs, prove_out,
                   proof, ver_inputs, verify_out, extracted, enc, reg>>

\* the shapes for which the Graph cannot be constructed
graph_new_fails(nodes, degree) == nodes = 0

\* setup on every SetupParams: G::new returns the Graph itself, not a Result,
\* so where it fails it aborts, and setup's only return is Ok(PublicParams)
SetupCall ==
    /\ pc = "init"
    /\ \E nodes \in {0, Nodes}, seed \in Seeds, private \in BOOLEAN,
          count \in ChallengeCounts, bh \in BetaHeights, pbh \in PrevBetaHeights :
          LET sp == [nodes |-> nodes, degree |-> Degree, seed |-> seed,
                     private |-> private, challenges_count |-> count,
                     beta_height |-> bh, prev_layer_beta_height |-> pbh]
          IN  call' = [op |-> "setup", sp |-> sp,
                       out |-> IF graph_new_fails(nodes, Degree)
                               THEN Failed("panic", "Graph::new")
                               ELSE Ok(setup(sp))]
    /\ pc' = "returned"
    /\ UNCHANGED <<pp, replica_id, original, data, tau, aux, pub_inputs, prove_out,
                   proof, ver_inputs, verify_out, extracted, enc, reg>>

NextCalls ==
    \/ TryFromBytes
    \/ WriteBytes
    \/ Construct
    \/ ConvertFr
    \/ MultiNode
    \/ HashMd
    \/ ProvesChallenge
    \/ Serialize
    \/ SetupCall

SpecCalls == Init /\ [][NextCalls]_vars

----------------------------------------------------------------------------
(* The lazily built Poseidon constant registries (lazy_static!): threads that
   hash dereference a registry; the first to arrive runs its initializer, the
   others block until the initializer has returned. *)

MaxThreads == 2

\* the keys (field, arity) each initializer inserts, in its order
RegistryKeys(r) ==
    CASE r = "halo::POSEIDON_CONSTANTS" ->
            <<<<"Fp", "U2">>, <<"Fp", "U4">>, <<"Fp", "U8">>,
              <<"Fq", "U2">>, <<"Fq", "U4">>, <<"Fq", "U8">>>>
      [] r = "halo::POSEIDON_MD_CONSTANTS" -> <<<<"Fp", "MD">>, <<"Fq", "MD">>>>
      [] r = "stacked::POSEIDON_CONSTANTS" ->
            <<<<"Fr", "U2">>, <<"Fr", "U11">>, <<"Fp", "U2">>, <<"Fp", "U11">>,
              <<"Fq", "U2">>, <<"Fq", "U11">>>>

\* what a thread that dereferences a lazy static does, by the state of its
\* Once (the first variant lets every thread that finds it not complete run
\* the initializer)
once_call_racy(state) == IF state = "complete" THEN "read" ELSE "build"
once_call(state) ==
    CASE state = "incomplete" -> "build"
      [] state = "running" -> "wait"
      [] state = "complete" -> "read"

InitRegistry ==
    /\ pc = "threads"
    /\ reg = [once |-> [r \in {"halo::POSEIDON_CONSTANTS", "halo::POSEIDON_MD_CONSTANTS",
                               "stacked::POSEIDON_CONSTANTS"} |-> "incomplete"],
              value |-> [r \in {"halo::POSEIDON_CONSTANTS", "halo::POSEIDON_MD_CONSTANTS",
                                "stacked::POSEIDON_CONSTANTS"} |-> <<>>],
              builds |-> [r \in {"halo::POSEIDON_CONSTANTS", "halo::POSEIDON_MD_CONSTANTS",
                                 "stacked::POSEIDON_CONSTANTS"} |-> 0],
              thread |-> [t \in 1 .. MaxThreads |->
                            [at |-> "idle", r |-> "", tm |-> <<>>, seen |-> <<>>]]]
    /\ pp = None
    /\ replica_id = 0
    /\ original = NoData
    /\ data = NoData
    /\ tau = None
    /\ aux = None
    /\ pub_inputs = None
    /\ prove_out = None
    /\ proof = None
    /\ ver_inputs = None
    /\ verify_out = None
    /\ extracted = None
    /\ enc = None
    /\ call = None

\* thread t starts a hash call and dereferences registry r
Deref(t) ==
    /\ reg.thread[t].at = "idle"
    /\ \E r \in DOMAIN reg.once :
          LET todo == once_call(reg.once[r])
          IN  reg' = CASE todo = "build" ->
                            [reg EXCEPT !.once[r] = "running",
                                        !.builds[r] = @ + 1,
                                        !.thread[t] = [at |-> "building", r |-> r,
                                                       tm |-> <<>>, seen |-> <<>>]]
                       [] todo = "wait" ->
                            [reg EXCEPT !.thread[t] = [at |-> "waiting", r |-> r,
                                                       tm |-> <<>>, seen |-> <<>>]]
                       [] todo = "read" ->
                            [reg EXCEPT !.thread[t] = [at |-> "hashing", r |-> r,
                                                       tm |-> <<>>, seen |-> reg.value[r]]]
    /\ UNCHANGED <<pc, pp, replica_id, original, data, tau, aux, pub_inputs, prove_out,
                   proof, ver_inputs, verify_out, extracted, enc, call>>

\* the initializer inserts its next key into its local map tm
TmInsert(t) ==
    /\ reg.thread[t].at = "building"
    /\ Len(reg.thread[t].tm) < Len(RegistryKeys(reg.thread[t].r))
    /\ reg' = [reg EXCEPT !.thread[t].tm =
                  Append(@, RegistryKeys(reg.thread[t].r)[Len(@) + 1])]
    /\ UNCHANGED <<pc, pp, replica_id, original, data, tau, aux, pub_inputs, prove_out,
                   proof, ver_inputs, verify_out, extracted, enc, call>>

\* the initializer returns tm: the static holds it, its Once is complete and
\* the thread goes on with its hash call
Publish(t) ==
    /\ reg.thread[t].at = "building"
    /\ Len(reg.thread[t].tm) = Len(RegistryKeys(reg.thread[t].r))
    /\ reg' = [reg EXCEPT !.value[reg.thread[t].r] = reg.thread[t].tm,
                          !.once[reg.thread[t].r] = "complete",
                          !.thread[t].at = "hashing",
                          !.thread[t].seen = reg.thread[t].tm]
    /\ UNCHANGED <<pc, pp, replica_id, original, data, tau, aux, pub_inputs, prove_out,
                   proof, ver_inputs, verify_out, extracted, enc, call>>

\* a blocked thread goes on once the Once is complete
Wake(t) ==
    /\ reg.thread[t].at = "waiting"
    /\ reg.once[reg.thread[t].r] = "complete"
    /\ reg' = [reg EXCEPT !.thread[t].at = "hashing",
                          !.thread[t].seen = reg.value[reg.thread[t].r]]
    /\ UNCHANGED <<pc, pp, replica_id, original, data, tau, aux, pub_inputs, prove_out,
                   proof, ver_inputs, verify_out, extracted, enc, call>>

\* the hash call returns
Return(t) ==
    /\ reg.thread[t].at = "hashing"
    /\ reg' = [reg EXCEPT !.thread[t] = [at |-> "idle", r |-> "", tm |-> <<>>, seen |-> <<>>]]
    /\ UNCHANGED <<pc, pp, replica_id, original, data, tau, aux, pub_inputs, prove_out,
                   proof, ver_inputs, verify_out, extracted, enc, call>>

NextRegistry ==
    \E t \in 1 .. MaxThreads :
        \/ Deref(t)
        \/ TmInsert(t)
        \/ Publish(t)
        \/ Wake(t)
        \/ Return(t)

SpecRegistry == InitRegistry /\ [][NextRegistry]_vars

----------------------------------------------------------------------------
(* Replicate step by step: the data tree, one node of vde::encode at a time,
   the replica tree. enc holds the supplied tree, tree_d, the next node of
   the encoding loop and the key each encoded node was masked with. *)

\* the match on data_tree that builds a tree whether or not one is supplied
ReplicateBegin_rebuild ==
    /\ pc = "setup"
    /\ \E rid \in SampleReplicaIds, buf \in SampleData,
          data_tree \in {None} \cup {hybrid_merkle_tree(b, pp.prev_layer_beta_height) :
                                        b \in SampleData} :
          /\ replica_id' = rid
          /\ original' = buf
          /\ data' = buf
          /\ enc' = [given |-> data_tree,
                     tree_d |-> hybrid_merkle_tree(buf, pp.prev_layer_beta_height),
                     node |-> 0,
                     keys |-> <<>>]
    /\ pc' = "encoding"
    /\ UNCHANGED <<pp, tau, aux, pub_inputs, prove_out, proof, ver_inputs,
                   verify_out, extracted, call, reg>>

\* replicate, up to the call of vde::encode: the match on data_tree
ReplicateBegin ==
    /\ pc = "setup"
    /\ \E rid \in SampleReplicaIds, buf \in SampleData,
          data_tree \in {None} \cup {hybrid_merkle_tree(b, pp.prev_layer_beta_height) :
                                        b \in SampleData} :
          /\ replica_id' = rid
          /\ original' = buf
          /\ data' = buf
          /\ enc' = [given |-> data_tree,
                     tree_d |-> IF data_tree = None
                                THEN hybrid_merkle_tree(buf, pp.prev_layer_beta_height)
                                ELSE data_tree,
                     node |-> 0,
                     keys |-> <<>>]
    /\ pc' = "encoding"
    /\ UNCHANGED <<pp, tau, aux, pub_inputs, prove_out, proof, ver_inputs,
                   verify_out, extracted, call, reg>>

\* vde::encode, one pass of its loop: node enc.node, in place
EncodeNode ==
    /\ pc = "encoding"
    /\ enc.node < graph_size(pp.graph)
    /\ LET key == create_key(pp.graph, replica_id, enc.node, data)
       IN  /\ data' = [data EXCEPT ![enc.node] = encode(key, data[enc.node])]
           /\ enc' = [enc EXCEPT !.node = enc.node + 1, !.keys = Append(enc.keys, key)]
    /\ UNCHANGED <<pc, pp, replica_id, original, tau, aux, pub_inputs, prove_out,
                   proof, ver_inputs, verify_out, extracted, call, reg>>

\* replicate, after vde::encode returned: the replica tree and the result
ReplicateEnd ==
    /\ pc = "encoding"
    /\ enc.node = graph_size(pp.graph)
    /\ LET tree_d == enc.tree_d
           comm_d == tree_root(tree_d)
           tree_r == hybrid_merkle_tree(data, pp.beta_height)
           comm_r == tree_root(tree_r)
       IN  /\ tau' = [comm_d |-> comm_d, comm_r |-> comm_r]
           /\ aux' = [tree_d |-> tree_d, tree_r |-> tree_r]
    /\ pc' = "replicated"
    /\ UNCHANGED <<pp, replica_id, original, data, pub_inputs, prove_out, proof,
                   ver_inputs, verify_out, extracted, enc, call, reg>>

NextReplicate ==
    \/ Setup(Seeds, {ChallengesCountOne}, BetaHeights, PrevBetaHeights)
    \/ ReplicateBegin
    \/ EncodeNode
    \/ ReplicateEnd

SpecReplicate == Init /\ [][NextReplicate]_vars

----------------------------------------------------------------------------
(* Claims *)

\* C1: after setup and replicate, extract_all on the replica returns exactly
\* the original data, and extract(node) returns exactly the original node,
\* for every node including node 0.
C1_RoundTrip ==
    pc = "extracted" =>
        IF extracted.all THEN extracted.bytes = original
        ELSE extracted.bytes = original[extracted.node]

\* extract_all has run on a replica in which replication changed every node
C1_Witness ==
    /\ pc = "extracted"
    /\ extracted.all
    /\ \A i \in NodeIds : data[i] /= original[i]
    /\ \E i, j \in NodeIds : original[i] /= original[j]

\* C2: decode is the exact inverse of encode: decode(k, encode(k, v)) = v for
\* all field values k and v.
C2_DecodeInvertsEncode ==
    pc = "decoded" => enc.decoded = enc.value

\* a round trip whose sum key + value wrapped around the modulus
C2_Witness ==
    /\ pc = "decoded"
    /\ enc.key + enc.value >= Modulus
    /\ enc.encoded < enc.key

----------------------------------------------------------------------------
(* Vocabulary of the verify claims.  Positions are 1-based here; verify's    *)
(* verify_out.at is the 0-based loop index.                                  *)

Verified == pc = "verified"
Challenge(i) == ver_inputs.challenges[i]
Positions == 1 .. Len(ver_inputs.challenges)
Honest == proof = prove_out.proof
InRange(c) == 1 <= c /\ c < Nodes

HasEntry(i) ==
    /\ i <= Len(proof.nodes)
    /\ i <= Len(proof.replica_nodes)
    /\ i <= Len(proof.replica_parents)

ClaimedParents(i) ==
    [k \in 1 .. Len(proof.replica_parents[i]) |-> proof.replica_parents[i][k][1]]

\* the DataProof is a valid inclusion proof of the node its path leads to
ValidFor(dp, node) == validate(dp.proof, node) /\ dp.data = dp.proof.leaf

\* the order of verify's rejecting checks within one challenge
Checks == <<"range", "data_path", "replica_path", "parents_len", "parents",
            "replica_validate", "parent_validate", "unsealed", "data_validate">>
Rank(name) == CHOOSE k \in 1 .. Len(Checks) : Checks[k] = name

\* each check of challenge i, evaluated on its own
CheckFails(name, i) ==
    LET c == Challenge(i)
        expected == graph_parents(pp.graph, c)
        unsealed == Unsealed(pp, ver_inputs, proof, i - 1)
    IN  CASE name = "range" -> c >= Nodes
          [] name = "data_path" -> ~proves_challenge(proof.nodes[i], c)
          [] name = "replica_path" -> ~proves_challenge(proof.replica_nodes[i], c)
          [] name = "parents_len" -> Len(proof.replica_parents[i]) /= Len(expected)
          [] name = "parents" ->
                \E k \in 1 .. Len(expected) :
                    k <= Len(proof.replica_parents[i]) /\ ClaimedParents(i)[k] /= expected[k]
          [] name = "replica_validate" -> ~validate(proof.replica_nodes[i].proof, c % Nodes)
          [] name = "parent_validate" ->
                \E k \in 1 .. Len(proof.replica_parents[i]) :
                    ~validate(proof.replica_parents[i][k][2].proof, ClaimedParents(i)[k])
          [] name = "unsealed" -> unsealed /= proof.nodes[i].data
          [] name = "data_validate" -> proof.nodes[i].proof.leaf.val /= unsealed.val

\* the rank of the first check, from rank k on, that challenge i fails (0: none)
RECURSIVE FirstFrom(_, _)
FirstFrom(i, k) ==
    IF k > Len(Checks) THEN 0
    ELSE IF CheckFails(Checks[k], i) THEN k
    ELSE FirstFrom(i, k + 1)

\* an out-of-range challenge fails the range check whatever the Proof holds;
\* the other checks read the Proof's entry for the challenge
FirstFailRank(i) ==
    IF Challenge(i) >= Nodes THEN Rank("range")
    ELSE IF ~HasEntry(i) THEN 0
    ELSE FirstFrom(i, 1)
Fails(i) == FirstFailRank(i) /= 0
FirstFailed(i) == Checks[FirstFailRank(i)]
Passes(i) == Challenge(i) < Nodes /\ HasEntry(i) /\ FirstFrom(i, 1) = 0
FirstFailing(i) == Fails(i) /\ \A j \in 1 .. (i - 1) : Passes(j)

ProveRan == pc \in {"proved", "aborted", "tampered", "verified"}

\* C3: a Proof that prove returns for in-range, non-zero challenges (such as
\* [c, c] under challenges_count 2) on the trees replicate produced makes
\* verify return true under the same public parameters and public inputs.
C3_Completeness ==
    (/\ Verified
     /\ Honest
     /\ ver_inputs = pub_inputs
     /\ \A i \in Positions : InRange(Challenge(i)))
    => verify_out.ret = "true"

\* the tests' configuration: challenges [c, c], challenges_count 2, beta
\* height 1, every layer of tree_d a Beta layer
C3_Witness ==
    /\ Verified
    /\ Honest
    /\ ver_inputs = pub_inputs
    /\ pub_inputs.challenges = <<3, 3>>
    /\ pp.challenges_count = ChallengesCountTwo
    /\ pp.beta_height = BETA_HEIGHT
    /\ pp.prev_layer_beta_height = TreeHeight + 1
    /\ verify_out.ret = "true"

\* the Proof's parent index list for position i is not the graph's parent list
\* of that challenge
ParentsDiffer(i) ==
    /\ i <= Len(proof.replica_parents)
    /\ Challenge(i) < Nodes
    /\ ClaimedParents(i) /= graph_parents(pp.graph, Challenge(i))

\* C4 as stated: whenever the Proof's parent index list of some challenge
\* differs from the graph's parent list, verify returns false.
C4_Original ==
    Verified => \A i \in Positions : ParentsDiffer(i) => verify_out.ret = "false"

\* C4, amended: whenever the Proof's parent index list of some challenge
\* differs from the graph's parent list, verify never returns true: it returns
\* false no later than that challenge's parent comparison, unless it aborts
\* before it gets there (an earlier challenge's abort, or an index past the end
\* of one of the Proof's vectors).
C4_ParentBinding ==
    Verified =>
        \A i \in Positions : ParentsDiffer(i) =>
            /\ verify_out.ret /= "true"
            /\ verify_out.at <= i - 1
            /\ (verify_out.ret = "false" /\ verify_out.at = i - 1
                    => Rank(verify_out.check) <= Rank("parents"))
            /\ (verify_out.ret = "abort" /\ verify_out.at = i - 1
                    => verify_out.check = "index")

\* a substituted parent that carries its own valid inclusion proof, rejected by
\* the parent comparison
C4_Witness ==
    /\ Verified
    /\ \E i \in Positions :
          /\ ParentsDiffer(i)
          /\ \A k \in 1 .. Len(proof.replica_parents[i]) :
                ValidFor(proof.replica_parents[i][k][2], ClaimedParents(i)[k])
          /\ verify_out = Returned("false", i - 1, "parents")

\* the Proof claims the graph's parent indices for position i, but one of the
\* attached DataProofs is a valid proof of another node
ParentProofsOfOthers(i) ==
    /\ HasEntry(i)
    /\ Challenge(i) < Nodes
    /\ ClaimedParents(i) = graph_parents(pp.graph, Challenge(i))
    /\ \E k \in 1 .. Len(proof.replica_parents[i]) :
          \E q \in NodeIds :
              /\ q /= ClaimedParents(i)[k]
              /\ ValidFor(proof.replica_parents[i][k][2], q)

\* C5 as stated: correct parent indices with the valid DataProofs of other
\* nodes make verify return false.
C5_Original ==
    Verified => \A i \in Positions : ParentProofsOfOthers(i) => verify_out.ret = "false"

\* C5, amended: correct parent indices with the valid DataProofs of other nodes
\* never make verify return true: it returns false no later than the validation
\* of that challenge's parent proofs, unless it aborts first (the challenge-0
\* assertion of that challenge or an earlier abort).
C5_ParentProofBinding ==
    Verified =>
        \A i \in Positions : ParentProofsOfOthers(i) =>
            /\ verify_out.ret /= "true"
            /\ verify_out.at <= i - 1
            /\ (verify_out.ret = "false" /\ verify_out.at = i - 1
                    => Rank(verify_out.check) <= Rank("parent_validate"))
            /\ (verify_out.ret = "abort" /\ verify_out.at = i - 1
                    => verify_out.check = "cannot prove the first node")

\* the rotated parent proofs of the tests, rejected when they are validated
C5_Witness ==
    /\ Verified
    /\ \E i \in Positions :
          /\ ParentProofsOfOthers(i)
          /\ verify_out = Returned("false", i - 1, "parent_validate")

\* C6: a Proof that prove returned for challenge c1 makes verify return false
\* under the challenge list [c2], c2 /= c1, both in range and non-zero.
C6_ChallengeBinding ==
    (/\ Verified
     /\ Honest
     /\ Len(ver_inputs.challenges) = 1
     /\ InRange(Challenge(1))
     /\ InRange(pub_inputs.challenges[1])
     /\ Challenge(1) /= pub_inputs.challenges[1])
    => verify_out.ret = "false" /\ verify_out.at = 0

\* the tests' case: proved for [1, 1], verified against [2]
C6_Witness ==
    /\ Verified
    /\ Honest
    /\ pub_inputs.challenges = <<1, 1>>
    /\ ver_inputs.challenges = <<2>>
    /\ verify_out.ret = "false"

\* C7 as stated: verify returns true only if every challenge passes every
\* check, and the first failing check of the first failing challenge makes it
\* return false there.
C7_Original ==
    Verified =>
        /\ verify_out.ret = "true" => \A i \in Positions : Passes(i)
        /\ \A i \in Positions :
              FirstFailing(i) => verify_out = Returned("false", i - 1, FirstFailed(i))

\* C7, amended: verify returns true only if every challenge passes every check;
\* the first failing check of the first failing challenge makes it return false
\* there, without a look at later challenges, unless verify aborts before it
\* reaches that check.
C7_AllOrNothing ==
    Verified =>
        /\ verify_out.ret = "true" => \A i \in Positions : Passes(i)
        /\ \A i \in Positions :
              FirstFailing(i) =>
                  \/ verify_out = Returned("false", i - 1, FirstFailed(i))
                  \/ /\ verify_out.ret = "abort"
                     /\ verify_out.at <= i - 1
                     /\ (verify_out.at = i - 1 => Rank(FirstFailed(i)) > Rank("parents"))

\* two challenges, the first rejected, the second one that would pass
C7_Witness ==
    /\ Verified
    /\ Len(ver_inputs.challenges) = 2
    /\ FirstFailing(1)
    /\ Passes(2)
    /\ verify_out = Returned("false", 0, FirstFailed(1))

C9_TooManyChallenges ==
    ProveRan =>
        /\ Len(pub_inputs.challenges) > pp.challenges_count
              <=> prove_out.status = "too many challenges"
        /\ prove_out.status = "too many challenges" => prove_out.proof = None

\* two challenges under challenges_count 1, the first of them node 0: the
\* count assertion fires, not the first-node assertion
C9_Witness ==
    /\ pc = "aborted"
    /\ pp.challenges_count = ChallengesCountOne
    /\ Len(pub_inputs.challenges) = 2
    /\ pub_inputs.challenges[1] = 0
    /\ prove_out.status = "too many challenges"

\* C10 as stated: verify returns false whenever a challenge is >= the graph
\* size, and the range check is the first check of that challenge.
C10_Original ==
    Verified =>
        \A i \in Positions : Challenge(i) >= Nodes =>
            /\ verify_out.ret = "false"
            /\ (verify_out.at = i - 1 => verify_out.check = "range")

\* C10, amended: when a challenge is >= the graph size verify never returns
\* true and never gets past that challenge; when it reaches that challenge it
\* returns false on the range check, before every other check of that
\* challenge; an earlier challenge can end verify first, with false or with
\* an abort.
C10_OutOfRange ==
    Verified =>
        \A i \in Positions : Challenge(i) >= Nodes =>
            /\ verify_out.ret /= "true"
            /\ verify_out.at <= i - 1
            /\ (verify_out.at = i - 1 => verify_out = Returned("false", i - 1, "range"))

\* the second challenge is out of range and the Proof has no entry for it:
\* the range check comes before the Proof is read
C10_Witness ==
    /\ Verified
    /\ Len(ver_inputs.challenges) = 2
    /\ Len(proof.nodes) = 1
    /\ Challenge(2) = Nodes + 1
    /\ verify_out = Returned("false", 1, "range")

----------------------------------------------------------------------------
(* C11 *)

\* C11 as stated: verify aborts only on a malformed Proof, and a Proof whose
\* parent count for a challenge is not the expected one makes it raise. A
\* well-formed Proof has the shape prove returns for the challenges verify is
\* given: three vectors of one length, an entry per challenge, Degree parents
\* per entry, replica leaves of the layer's variant.
C11_Original ==
    Verified =>
        LET WellFormedProof ==
                /\ Len(proof.replica_nodes) = Len(proof.nodes)
                /\ Len(proof.replica_parents) = Len(proof.nodes)
                /\ Len(proof.nodes) >= Len(ver_inputs.challenges)
                /\ \A i \in 1 .. Len(proof.nodes) :
                      /\ Len(proof.replica_parents[i]) = graph_degree(pp.graph)
                      /\ proof.replica_nodes[i].data.tag = TreeTag(0, pp.beta_height)
        IN  /\ (verify_out.ret = "abort" => ~WellFormedProof)
            /\ (verify_out.check = "parents_len" => verify_out.ret = "abort")

\* C11, amended: verify ends with true, false or an abort, never an error
\* value; every rejecting check, the parent count comparison included, ends
\* it with false; it aborts in exactly four cases: the Proof has no entry for
\* the challenge in one of its vectors, the challenge is node 0, the
\* PublicInputs carry no replica id, or the replica leaf of the challenge is of
\* the other HybridDomain variant.
C11_VerifyOutcomes ==
    Verified =>
        LET i == verify_out.at + 1
        IN  /\ verify_out.ret \in {"true", "false", "abort"}
            /\ (verify_out.ret = "false" <=>
                    \E k \in 1 .. Len(Checks) : verify_out.check = Checks[k])
            /\ (verify_out.ret = "false" /\ verify_out.check = "parents_len" =>
                    Len(proof.replica_parents[i]) /= graph_degree(pp.graph))
            /\ (1 \in Positions /\ Challenge(1) < Nodes /\ HasEntry(1)
                    /\ proves_challenge(proof.nodes[1], Challenge(1))
                    /\ proves_challenge(proof.replica_nodes[1], Challenge(1))
                    /\ Len(proof.replica_parents[1]) /= graph_degree(pp.graph)
                 => verify_out = Returned("false", 0, "parents_len"))
            /\ (verify_out.ret = "abort" =>
                    \/ verify_out.check = "index" /\ ~HasEntry(i)
                    \/ /\ verify_out.check = "cannot prove the first node"
                       /\ Challenge(i) = 0
                    \/ /\ verify_out.check = "missing replica_id"
                       /\ ver_inputs.replica_id = <<>>
                    \/ /\ verify_out.check = "hybrid variant"
                       /\ proof.replica_nodes[i].data.tag /= TreeTag(0, pp.beta_height))

\* a Proof with one parent too few for its first challenge, reported as false
C11_Witness ==
    /\ Verified
    /\ ver_inputs.challenges = <<3>>
    /\ HasEntry(1)
    /\ Len(proof.replica_parents[1]) = graph_degree(pp.graph) - 1
    /\ verify_out = Returned("false", 0, "parents_len")

----------------------------------------------------------------------------
(* C12 .. C14 *)

C13_Canonical ==
    (pc = "returned" /\ call.kind = "PoseidonDomain"
        /\ call.op \in {"try_from_bytes", "from", "deserialize", "from_slice",
                        "random", "default"}
        /\ Len(call.bytes) = ByteLen)
    => /\ (call.out.ret = "ok" => Canonical(call.field, call.out.value.repr))
       /\ (~Canonical(call.field, call.bytes) /\ call.op /= "default"
               => call.out.ret /= "ok")

\* C14: a conversion of a BLS12-381 scalar into a halo Domain, or of a halo
\* Domain into a BLS12-381 scalar, never returns a value: it aborts.
C14_CrossFieldFails ==
    (pc = "returned" /\ call.op \in {"from_fr", "into_fr"}) => call.out.ret = "panic"

\* the scalar 1 converted into a halo Sha256Domain
C14_Witness ==
    /\ pc = "returned"
    /\ call.op = "from_fr"
    /\ call.kind = "Sha256Domain"
    /\ call.bytes = [k \in 1 .. ByteLen |-> 1]
    /\ call.out.ret = "panic"

\* C15 as stated: multi_node returns a digest for every preimage of 2, 4 or
\* 8 Domains, and fails on the arity for every other length.
C15_ExactArities ==
    (pc = "returned" /\ call.op = "multi_node") =>
        IF Len(call.preimage) \in {2, 4, 8}
        THEN call.out.ret = "ok"
        ELSE call.out = Failed("panic", "unsupported Halo Poseidon hasher arity")

----------------------------------------------------------------------------
(* C16 *)

\* C16 as stated: the bytes of a DataProof are its inclusion-proof bytes and
\* then the 32 bytes of its leaf value; the bytes of a Proof are, challenge by
\* challenge, the replica node's DataProof, for each parent the 4 bytes of its
\* index in little-endian and its DataProof, and the decoded node's DataProof,
\* with nothing else in between.
C16_Layout ==
    (pc = "returned" /\ call.op = "serialize") =>
        LET prf == call.proof
            DataProofBytes(dp) ==
                merkle_proof_serialize(dp.proof) \o LEBytes(dp.data.val, 32)
            RECURSIVE ParentBytes(_, _)
            ParentBytes(parents, k) ==
                IF k > Len(parents) THEN <<>>
                ELSE <<parents[k][1] % 256, (parents[k][1] \div 256) % 256,
                       (parents[k][1] \div 65536) % 256, 0>>
                     \o DataProofBytes(parents[k][2]) \o ParentBytes(parents, k + 1)
            RECURSIVE ChallengeBytes(_)
            ChallengeBytes(i) ==
                IF i > Len(prf.nodes) THEN <<>>
                ELSE DataProofBytes(prf.replica_nodes[i])
                     \o ParentBytes(prf.replica_parents[i], 1)
                     \o DataProofBytes(prf.nodes[i])
                     \o ChallengeBytes(i + 1)
        IN  /\ \A i \in 1 .. Len(prf.nodes) :
                  DataProof_serialize(prf.nodes[i]) = DataProofBytes(prf.nodes[i])
            /\ call.out = Ok(ChallengeBytes(1))

----------------------------------------------------------------------------
(* C17 *)

\* C17 as stated: the data_root and replica_root of the Proof prove returns
\* are the roots of its first entries' inclusion proofs, and every Proof
\* verify accepts carries the roots of the Tau in the PublicInputs.
C17_RootsAreTau ==
    /\ pc = "proved" =>
          /\ proof.data_root = proof.nodes[1].proof.root
          /\ proof.replica_root = proof.replica_nodes[1].proof.root
    /\ (Verified /\ verify_out.ret = "true") =>
          /\ proof.data_root = ver_inputs.tau.comm_d
          /\ proof.replica_root = ver_inputs.tau.comm_r

----------------------------------------------------------------------------
(* C18 *)

\* C18: under every interleaving of the threads each registry's initializer
\* runs at most once, a hash call only ever sees a registry with all of its
\* entries, and once a registry is built neither it nor its entries change.
C18_BuiltOnce ==
    /\ [](\A r \in DOMAIN reg.once :
            /\ reg.builds[r] <= 1
            /\ (reg.once[r] /= "complete" => reg.value[r] = <<>>)
            /\ \A t \in 1 .. MaxThreads :
                  (reg.thread[t].at = "hashing" /\ reg.thread[t].r = r)
                      => reg.thread[t].seen = RegistryKeys(r))
    /\ [][\A r \in DOMAIN reg.once :
            reg.once[r] = "complete" =>
                reg'.once[r] = "complete" /\ reg'.value[r] = reg.value[r]]_vars

\* two threads hash with the same registry, which one of them built while the
\* other was blocked
C18_Witness ==
    /\ reg /= None
    /\ reg.builds["halo::POSEIDON_CONSTANTS"] = 1
    /\ \A t \in 1 .. 2 :
          /\ reg.thread[t].at = "hashing"
          /\ reg.thread[t].r = "halo::POSEIDON_CONSTANTS"
          /\ Len(reg.thread[t].seen) = 6

----------------------------------------------------------------------------
(* C19, C20 *)

C20_FieldArithmetic ==
    /\ pc \in {"decode", "decoded"} =>
          /\ enc.encoded \in 0 .. (Modulus - 1)
          /\ enc.encoded = IF enc.key + enc.value >= Modulus
                           THEN enc.key + enc.value - Modulus
                           ELSE enc.key + enc.value
    /\ pc = "decoded" =>
          /\ enc.decoded \in 0 .. (Modulus - 1)
          /\ enc.decoded = IF enc.encoded < enc.key
                           THEN enc.encoded + Modulus - enc.key
                           ELSE enc.encoded - enc.key

\* a sum that wraps, decoded through a negative difference
C20_Witness ==
    /\ pc = "decoded"
    /\ enc.key = Modulus - 1
    /\ enc.value = Modulus - 2
    /\ enc.encoded = Modulus - 3
    /\ enc.decoded = Modulus - 2

----------------------------------------------------------------------------
(* C21 *)

\* the accumulator the j-th permutation call of a returned hash_md starts from
\* is the first input for j = 1 and the digest of call j - 1 after it.
\* C21 as stated: hash_md fails on 0 or 1 inputs; on n >= 2 inputs it returns,
\* having made exactly ceil((n - 1) / (MDArity - 1)) permutation calls, call j
\* absorbing the accumulator and then the j-th chunk of at most MDArity - 1 of
\* the inputs after the first, in order, so never more than MDArity elements,
\* and the digest is the digest of the last call.
C21_Chain ==
    (pc = "returned" /\ call.op = "hash_md") =>
        LET input == call.preimage
            n == Len(input)
            calls == call.out.value.calls
            chunks == (n - 1 + MDArity - 2) \div (MDArity - 1)
            first(j) == 2 + (j - 1) * (MDArity - 1)
            last(j) == IF first(j) + MDArity - 2 < n THEN first(j) + MDArity - 2 ELSE n
        IN  IF n <= 1
            THEN call.out.ret = "panic"
            ELSE /\ call.out.ret = "ok"
                 /\ Len(calls) = chunks
                 /\ \A j \in 1 .. chunks :
                       /\ Len(calls[j]) <= MDArity
                       /\ calls[j][1] = IF j = 1 THEN input[1]
                                        ELSE shared_hash_frs(calls[j - 1])
                       /\ Tail(calls[j]) = SubSeq(input, first(j), last(j))
                 /\ call.out.value.digest = shared_hash_frs(calls[chunks])

\* four canonical inputs: two permutation calls, the second on a short chunk
C21_Witness ==
    /\ pc = "returned"
    /\ call.op = "hash_md"
    /\ Len(call.preimage) = 4
    /\ call.out.ret = "ok"
    /\ Len(call.out.value.calls) = 2
    /\ Len(call.out.value.calls[2]) = 2

----------------------------------------------------------------------------
(* C22 *)

\* C22: while Replicate encodes, the nodes below the loop's position are
\* encoded and the others still hold the original data; every pass encodes
\* exactly the node at the loop's position, all of whose parents (but for the
\* first node, its own parent) lie below that position and so are encoded
\* already, moves the position up by one, and masks the node with the key
\* hashed from the replica id and the parents' already encoded values.
C22_ParentsFirst ==
    /\ [](pc = "encoding" =>
            /\ Len(enc.keys) = enc.node
            /\ \A i \in NodeIds :
                  /\ i >= enc.node => data[i] = original[i]
                  /\ i < enc.node => data[i] = encode(enc.keys[i + 1], original[i]))
    /\ [][(pc = "encoding" /\ pc' = "encoding") =>
            LET i == enc.node
                parents == graph_parents(pp.graph, i)
            IN  /\ enc'.node = i + 1
                /\ \A j \in NodeIds \ {i} : data'[j] = data[j]
                /\ \A k \in 1 .. Len(parents) : parents[k] < i \/ (i = 0 /\ parents[k] = 0)
                /\ enc'.keys[i + 1] =
                      IF i = 0 THEN KeyHash(replica_id, <<>>)
                      ELSE KeyHash(replica_id,
                                   [k \in 1 .. Len(parents) |-> data'[parents[k]]])
                /\ data'[i] = encode(enc'.keys[i + 1], original[i])]_vars

\* node 3 is being encoded after its parents, whose replica values differ
\* from their original values
C22_Witness ==
    /\ pc = "encoding"
    /\ enc.node = Nodes
    /\ \E k \in 1 .. Degree :
          LET p == graph_parents(pp.graph, Nodes - 1)[k]
          IN  p < Nodes - 1 /\ data[p] /= original[p]

----------------------------------------------------------------------------
(* C23 *)

\* C23: when no tree is supplied tree_d is the tree of the data before any
\* node is encoded, at prev_layer_beta_height; a supplied tree is tree_d as
\* it is; tree_d never changes while the nodes are encoded; Replicate returns
\* tree_d, the tree of the fully encoded data at beta_height as tree_r, and
\* their two roots as Tau.
C23_Trees ==
    /\ [](pc \in {"encoding", "replicated"} =>
            enc.tree_d = IF enc.given = None
                         THEN hybrid_merkle_tree(original, pp.prev_layer_beta_height)
                         ELSE enc.given)
    /\ [](pc = "replicated" =>
            /\ data = vde_encode(pp.graph, replica_id, original)
            /\ aux.tree_d = enc.tree_d
            /\ aux.tree_r = hybrid_merkle_tree(data, pp.beta_height)
            /\ tau = [comm_d |-> tree_root(aux.tree_d), comm_r |-> tree_root(aux.tree_r)]
            /\ [tau |-> tau, aux |-> aux, data |-> data]
                  = replicate(pp, replica_id, original, enc.given))
    /\ [][pc = "setup" => (pc' = "encoding" /\ enc'.node = 0 /\ data' = original')]_vars
    /\ [][pc = "encoding" => enc'.tree_d = enc.tree_d /\ enc'.given = enc.given]_vars

\* Replicate returned with a supplied tree that is not the tree of its data
C23_Witness ==
    /\ pc = "replicated"
    /\ enc.given /= None
    /\ enc.given /= hybrid_merkle_tree(original, pp.prev_layer_beta_height)
    /\ aux.tree_d = enc.given
    /\ tau.comm_d = tree_root(enc.given)
    /\ data /= original

----------------------------------------------------------------------------
(* C24 *)

\* C24: proves_challenge(c) is true exactly when at every level l of the path,
\* level 0 at the leaf, is_right equals bit l of c; so it returns the same for
\* c and for c without its bits at and above the path's length.
C24_BitsOfChallenge ==
    (pc = "returned" /\ call.op = "proves_challenge") =>
        LET path == call.dp.proof.path
            bit(l) == (call.challenge \div Pow2(l)) % 2
        IN  /\ call.out = (\A l \in 0 .. (Len(path) - 1) : path[l + 1].is_right = (bit(l) = 1))
            /\ call.out = proves_challenge(call.dp, call.challenge % Pow2(Len(path)))

\* challenge 6 on a path of two levels (left, right): bit 2 is set above the
\* path and the proof proves the challenge
C24_Witness ==
    /\ pc = "returned"
    /\ call.op = "proves_challenge"
    /\ call.challenge = 6
    /\ Len(call.dp.proof.path) = 2
    /\ ~call.dp.proof.path[1].is_right
    /\ call.dp.proof.path[2].is_right
    /\ call.out = TRUE

----------------------------------------------------------------------------
(* C25 *)

\* C25 as stated: the decoded value prove puts in nodes[i].data and the value
\* verify recomputes are Alpha exactly when prev_layer_beta_height is 0, the
\* replica leaf that is decoded is Alpha exactly when beta_height is 0, and a
\* Proof whose nodes[i].data carries the other variant makes verify return
\* false.
C25_Original ==
    /\ (ProveRan /\ prove_out.status = "ok") =>
          \A i \in 1 .. Len(pub_inputs.challenges) :
              /\ prove_out.proof.nodes[i].data.tag = TreeTag(0, pp.prev_layer_beta_height)
              /\ prove_out.proof.replica_nodes[i].data.tag = TreeTag(0, pp.beta_height)
    /\ Verified =>
          \A i \in Positions : (HasEntry(i) /\ ver_inputs.replica_id /= <<>>) =>
              Unsealed(pp, ver_inputs, proof, i - 1).tag
                  = TreeTag(0, pp.prev_layer_beta_height)
    /\ Verified =>
          \A i \in Positions :
              (/\ i <= Len(proof.nodes)
               /\ proof.nodes[i].data.tag /= TreeTag(0, pp.prev_layer_beta_height))
              => verify_out.ret = "false"

\* C25, amended: the variants are as stated; verify compares the recomputed
\* value with nodes[i].data only after it decoded a replica leaf of the
\* layer's variant (any other makes it abort there); a Proof whose
\* nodes[i].data carries the other variant never makes verify return true: it
\* returns false no later than that comparison, unless it aborts first.
C25_LayerTags ==
    /\ (ProveRan /\ prove_out.status = "ok") =>
          \A i \in 1 .. Len(pub_inputs.challenges) :
              /\ prove_out.proof.nodes[i].data.tag = TreeTag(0, pp.prev_layer_beta_height)
              /\ prove_out.proof.replica_nodes[i].data.tag = TreeTag(0, pp.beta_height)
    /\ Verified =>
          \A i \in Positions : (HasEntry(i) /\ ver_inputs.replica_id /= <<>>) =>
              /\ Unsealed(pp, ver_inputs, proof, i - 1).tag
                    = TreeTag(0, pp.prev_layer_beta_height)
              /\ (verify_out.at > i - 1
                  \/ (verify_out.at = i - 1 /\ verify_out.check \in {"unsealed", "data_validate"}))
                    => proof.replica_nodes[i].data.tag = TreeTag(0, pp.beta_height)
              /\ (verify_out.at = i - 1 /\ verify_out.check = "hybrid variant")
                    => proof.replica_nodes[i].data.tag /= TreeTag(0, pp.beta_height)
    /\ Verified =>
          \A i \in Positions :
              (/\ i <= Len(proof.nodes)
               /\ proof.nodes[i].data.tag /= TreeTag(0, pp.prev_layer_beta_height))
              => /\ verify_out.ret /= "true"
                 /\ verify_out.at <= i - 1
                 /\ (verify_out.ret = "false" /\ verify_out.at = i - 1
                        => Rank(verify_out.check) <= Rank("unsealed"))
                 /\ (verify_out.ret = "abort" /\ verify_out.at = i - 1
                        => verify_out.check \in {"index", "cannot prove the first node",
                                                 "missing replica_id", "hybrid variant"})

\* the Proof prove returned but for the variant of nodes[1].data, rejected
\* when the recomputed value is compared with it
C25_Witness ==
    /\ Verified
    /\ ver_inputs = pub_inputs
    /\ Len(proof.nodes) >= 1
    /\ proof.nodes[1].data.tag /= TreeTag(0, pp.prev_layer_beta_height)
    /\ proof.nodes[1].data.val = prove_out.proof.nodes[1].data.val
    /\ verify_out = Returned("false", 0, "unsealed")

----------------------------------------------------------------------------
(* C26 *)

\* C26: when prove returns a Proof, its replica_nodes, replica_parents and nodes
\* each have one entry per challenge of the PublicInputs; entry i is the
\* evidence for node challenges[i] mod graph size: the replica leaf of that
\* node with its inclusion proof in tree_r, the decoded leaf with the node's
\* inclusion proof in tree_d, and exactly degree parents, in the Graph's order,
\* each with its replica leaf and inclusion proof in tree_r.
C26_ProofShape ==
    (pc = "proved" /\ prove_out.status = "ok") =>
        LET prf == prove_out.proof
            n == Len(pub_inputs.challenges)
        IN  /\ Len(prf.replica_nodes) = n
            /\ Len(prf.replica_parents) = n
            /\ Len(prf.nodes) = n
            /\ \A i \in 1 .. n :
                  LET c == pub_inputs.challenges[i] % graph_size(pp.graph)
                      parents == graph_parents(pp.graph, c)
                  IN  /\ prf.replica_nodes[i].data = read_at(aux.tree_r, c)
                      /\ prf.replica_nodes[i].proof = gen_proof(aux.tree_r, c)
                      /\ proves_challenge(prf.replica_nodes[i], c)
                      /\ prf.nodes[i].proof = gen_proof(aux.tree_d, c)
                      /\ proves_challenge(prf.nodes[i], c)
                      /\ prf.nodes[i].data.val = original[c]
                      /\ Len(prf.replica_parents[i]) = graph_degree(pp.graph)
                      /\ \A k \in 1 .. graph_degree(pp.graph) :
                            /\ prf.replica_parents[i][k][1] = parents[k]
                            /\ prf.replica_parents[i][k][2].data
                                  = read_at(aux.tree_r, parents[k])
                            /\ prf.replica_parents[i][k][2].proof
                                  = gen_proof(aux.tree_r, parents[k])

\* the Proof for challenges [5, 3]: two entries, for nodes 1 and 3, node 3
\* with two different parents
C26_Witness ==
    /\ pc = "proved"
    /\ prove_out.status = "ok"
    /\ pub_inputs.challenges = <<Nodes + 1, 3>>
    /\ Len(prove_out.proof.nodes) = 2
    /\ proves_challenge(prove_out.proof.replica_nodes[1], 1)
    /\ prove_out.proof.replica_parents[2][1][1] < prove_out.proof.replica_parents[2][2][1]

----------------------------------------------------------------------------
(* C27 *)

\* C27: with an empty challenge list verify returns true whatever the Proof
\* and the public parameters are, and would return it without a Proof to read;
\* for any challenge list it returns what it returns for the Proof cut down to
\* its first len(challenges) entries, the two roots left out.
C27_OnlyChallengedEntries ==
    Verified =>
        LET n == Len(ver_inputs.challenges)
            Cut(seq) == SubSeq(seq, 1, IF n < Len(seq) THEN n ELSE Len(seq))
        IN  /\ n = 0 => verify_out = Returned("true", 0, "none")
            /\ n = 0 => verify(pp, ver_inputs, None).ret = "true"
            /\ verify_out = verify(pp, ver_inputs,
                                   [data_root |-> None,
                                    replica_root |-> None,
                                    replica_nodes |-> Cut(proof.replica_nodes),
                                    replica_parents |-> Cut(proof.replica_parents),
                                    nodes |-> Cut(proof.nodes)])

\* one challenge, verified true on a Proof of two entries whose second entry
\* is not the one prove returned
C27_Witness ==
    /\ Verified
    /\ Len(ver_inputs.challenges) = 1
    /\ Len(proof.nodes) = 2
    /\ proof.replica_parents[2] /= prove_out.proof.replica_parents[2]
    /\ verify_out.ret = "true"

----------------------------------------------------------------------------
(* C28 *)

\* C28: prove never returns a Proof without entries: every Proof it returns
\* has at least one entry in each of its three vectors, and for an empty
\* challenge list it returns neither a Proof nor an error but aborts in
\* Proof::new, which reads element 0 of the empty vectors.
C28_NoEmptyProof ==
    /\ (ProveRan /\ prove_out.status = "ok") =>
          /\ Len(prove_out.proof.nodes) >= 1
          /\ Len(prove_out.proof.replica_nodes) >= 1
          /\ Len(prove_out.proof.replica_parents) >= 1
    /\ (ProveRan /\ pub_inputs.challenges = <<>>) =>
          /\ prove_out = [status |-> "index out of bounds", proof |-> None]
          /\ pc = "aborted"

\* prove called with no challenge and no replica id
C28_Witness ==
    /\ pc = "aborted"
    /\ pub_inputs.challenges = <<>>
    /\ pub_inputs.replica_id = <<>>
    /\ prove_out.status = "index out of bounds"

----------------------------------------------------------------------------
(* C29 *)

\* C29: prove, given a replica id and no more challenges than
\* challenges_count, returns a Proof whenever every challenge is non-zero
\* modulo the graph size, also for challenges at or above the graph size;
\* verify, given that Proof and the same PublicInputs, returns false on the
\* range check of the first challenge at or above the graph size.
C29_UnreducedChallenge ==
    /\ (/\ ProveRan
        /\ pub_inputs.replica_id /= <<>>
        /\ Len(pub_inputs.challenges) \in 1 .. pp.challenges_count
        /\ \A i \in 1 .. Len(pub_inputs.challenges) :
              pub_inputs.challenges[i] % graph_size(pp.graph) /= 0)
       => prove_out.status = "ok"
    /\ (/\ Verified
        /\ Honest
        /\ ver_inputs = pub_inputs
        /\ \E i \in Positions : Challenge(i) >= graph_size(pp.graph))
       => /\ verify_out.ret = "false"
          /\ verify_out.check = "range"
          /\ Challenge(verify_out.at + 1) >= graph_size(pp.graph)
          /\ \A j \in 1 .. verify_out.at : Challenge(j) < graph_size(pp.graph)

\* proved for [3, 5], node 5 mod 4 = 1, and rejected on the second challenge
C29_Witness ==
    /\ Verified
    /\ Honest
    /\ ver_inputs = pub_inputs
    /\ pub_inputs.challenges = <<3, Nodes + 1>>
    /\ proves_challenge(proof.replica_nodes[2], 1)
    /\ verify_out = Returned("false", 1, "range")

----------------------------------------------------------------------------
(* C30 *)

\* C30 as stated: verify returns true only if, for every challenge, the leaf
\* value `data` of the replica node's DataProof and of each parent's DataProof
\* is the leaf its own inclusion proof commits to, and all these inclusion
\* proofs lead to one and the same root; so a replica or parent leaf value
\* altered under its inclusion proof makes verify return false.
C30_LeafBinding ==
    (Verified /\ verify_out.ret = "true") =>
        \A i \in Positions :
            /\ proof.replica_nodes[i].data = proof.replica_nodes[i].proof.leaf
            /\ \A k \in 1 .. Len(proof.replica_parents[i]) :
                  /\ proof.replica_parents[i][k][2].data
                        = proof.replica_parents[i][k][2].proof.leaf
                  /\ proof.replica_parents[i][k][2].proof.root
                        = proof.replica_nodes[1].proof.root
            /\ proof.replica_nodes[i].proof.root = proof.replica_nodes[1].proof.root

\* a verified Proof whose replica leaf value and one parent leaf value are
\* both not the leaves their inclusion proofs commit to: the parent's value
\* changes the key, the replica's value makes up for it
C30_Witness ==
    /\ Verified
    /\ ver_inputs = pub_inputs
    /\ verify_out.ret = "true"
    /\ proof.replica_nodes[1].data /= proof.replica_nodes[1].proof.leaf
    /\ \E k \in 1 .. Degree :
          proof.replica_parents[1][k][2].data /= proof.replica_parents[1][k][2].proof.leaf
    /\ proof.replica_nodes[1].proof = prove_out.proof.replica_nodes[1].proof
    /\ proof.nodes = prove_out.proof.nodes

============================================================================
